---------------------------- MODULE Spec2Model ----------------------------
(***************************************************************************)
(* A model of somnisoft/cron: the crond daemon (src/src/crond.c) with its  *)
(* crontab line parser, job matcher, lock file and main loop.              *)
(*                                                                         *)
(* Text is modelled as sequences of one-character strings.  A C string     *)
(* ends with a NUL byte: reading at or past the end of a sequence yields   *)
(* NUL.  Indices into a line are 0-based as in the C code.                 *)
(***************************************************************************)
EXTENDS Integers, Sequences, FiniteSets, TLC

VARIABLES
  build,        \* what the compiled program does on an out-of-bounds access
  line,         \* harness: the line handed to crond_crontab_parse_line, per context
  injected,     \* harness: the allocation failure injected in each round of calls
  si,           \* harness: the operands of the size arithmetic, the function
                \* called on them, what it stored and what it returned
  should_run,   \* harness: <<results of crond_job_should_run per job>>, or <<>>
  status_code,  \* crond::status_code, per context
  job_list,     \* crond::job_list (num_jobs is its length), per context
  tm,           \* crond::tm, per context: <<the struct tm pointed to>>, or <<>>
  errx,         \* per context: crond_errx_noexit has reported an error
  fd_lock_file, \* crond::fd_lock_file, per context
  path_crontab, \* crond::path_crontab, per context: <<the path>> or <<>>
  mtime_crontab,    \* crond::mtime_crontab, per context; 0 is the zeroed timespec
  g_signal_sigterm, \* the flag of each daemon process
  g_signal_sigint,  \* the flag of each daemon process
  pc,           \* where each daemon process is in crond_main
  proc,         \* each daemon process: whether its handlers are installed,
                \* the seconds it sleeps, its exit status
  lock_file,    \* the daemon whose open() created the lock file; 0: no lock file
  crontab,      \* the schedule file: exists, mtime, text
  faults,       \* number of failures of system calls injected so far
  hist,         \* per daemon, what it has done: see NoHist
  jobmon,       \* the child processes of the daemon that are followed, in the
                \* order of their fork(): see NewJobmon
  edit,         \* the runs of the crontab utility and the files they have
                \* created: see NoEdit
  wall          \* the wall clock, where it is followed: see NoWall

\* The state of the parser harness and of the daemons.
hvars == <<line, injected, si>>
dvars == <<fd_lock_file, path_crontab, g_signal_sigterm, g_signal_sigint,
           pc, proc, lock_file, crontab, faults, hist>>
cvars == <<should_run, status_code, job_list, tm, errx, mtime_crontab>>
vars == <<build, hvars, cvars, dvars, jobmon, edit, wall>>

(***************************************************************************)
(* Bounds of the model.                                                    *)
(***************************************************************************)
\* Width in bits of the modelled size_t (the program's is the platform's).
SizeBits == 16
\* Number of struct crond contexts (daemon processes / harness contexts).
NumCtx == 2

Ctx == 1..NumCtx

(***************************************************************************)
(* Program constants.                                                      *)
(***************************************************************************)
EXIT_SUCCESS == 0
EXIT_FAILURE == 1
STDERR_FILENO == 2
LenMinute  == 60
LenHour    == 24
LenDay     == 31
LenMonth   == 12
LenWeekday == 7
LenPad     == 2

SizeMod  == 2 ^ SizeBits
SIZE_MAX == SizeMod - 1
\* A pointer is the sequence holding the object pointed to; NULL is the
\* empty sequence.  A pointer to a byte string is the string itself: the
\* program tests such a pointer for NULL only right after the allocation,
\* which the model decides by the failure injected.
NULL == <<>>
\* The byte that ends a string.
NUL  == "NUL"

\* The element of a one-element set: The({ F(x) : x \in {e} }) is F(e) with
\* e computed once.
The(S) == CHOOSE v \in S : TRUE

\* Offsets of the bool arrays inside struct crond_job, counted from
\* crond_job::minute.  The arrays are adjacent: bool has size and alignment 1.
OffMinute  == 0
OffHour    == OffMinute + LenMinute
OffDay     == OffHour + LenHour
OffMonth   == OffDay + LenDay
OffWeekday == OffMonth + LenMonth
OffPad     == OffWeekday + LenWeekday
LenBools   == OffPad + LenPad

(***************************************************************************)
(* An access field[i] with i outside the array is undefined behaviour.     *)
(* The outcomes a build produces: the store lands on the adjacent member   *)
(* of the same struct or is elided; the load reads the adjacent member or  *)
(* yields either value.                                                    *)
(***************************************************************************)
Builds ==
  { [store |-> "adjacent", load |-> "adjacent"],
    [store |-> "elided",   load |-> "false"],
    [store |-> "elided",   load |-> "true"] }

(***************************************************************************)
(* Characters.                                                             *)
(***************************************************************************)
Digits == <<"0", "1", "2", "3", "4", "5", "6", "7", "8", "9">>

isdigit(c) == \E k \in 1..10 : Digits[k] = c

isblank(c) == c = " " \/ c = "\t"

\* c - '0' for a digit character c.
DigitVal(c) == (CHOOSE k \in 1..10 : Digits[k] = c) - 1

\* line[i] of a NUL-terminated string, i counted from 0.
At(s, i) == IF i >= 0 /\ i < Len(s) THEN s[i + 1] ELSE NUL

\* The bytes s[from .. to-1].
Slice(s, from, to) == [k \in 1..(IF to > from THEN to - from ELSE 0) |-> s[from + k]]

\* a - b in size_t arithmetic.
SizeSub(a, b) == (a - b + SizeMod) % SizeMod

(***************************************************************************)
(* si_mul_size_t: product modulo 2^SizeBits and the wrap indicator.        *)
(***************************************************************************)
\* a * b in size_t arithmetic, by shift and add: no intermediate value is
\* above 3 * SizeMod.
RECURSIVE SizeMul(_, _)
SizeMul(a, b) ==
  IF b = 0 THEN 0 ELSE (2 * SizeMul(a, b \div 2) + (b % 2) * a) % SizeMod

si_mul_size_t(a, b) ==
  [result |-> SizeMul(a, b),
   wraps  |-> IF b # 0 /\ a > SIZE_MAX \div b THEN 1 ELSE 0]

\* The sum with a wrap test that also fires when the sum equals a.
si_add_size_t_le(a, b) ==
  [result |-> (a + b) % SizeMod,
   wraps  |-> IF (a + b) % SizeMod <= a THEN 1 ELSE 0]

si_add_size_t(a, b) ==
  [result |-> (a + b) % SizeMod,
   wraps  |-> IF (a + b) % SizeMod < a THEN 1 ELSE 0]

(***************************************************************************)
(* crond_crontab_parse_blank: the index after the blanks starting at idx.  *)
(***************************************************************************)
RECURSIVE crond_crontab_parse_blank(_, _)
crond_crontab_parse_blank(s, idx) ==
  IF isblank(At(s, idx)) THEN crond_crontab_parse_blank(s, idx + 1) ELSE idx

(***************************************************************************)
(* crond_strtoul_field on a buffer holding one or two digit characters.    *)
(***************************************************************************)
crond_strtoul_field(str) ==
  IF Len(str) = 1 THEN DigitVal(str[1])
  ELSE 10 * DigitVal(str[1]) + 1 * DigitVal(str[2])

(***************************************************************************)
(* crond_set_field_range(field, start, end): field[i] = true for           *)
(* start <= i <= end.  bools is the set of offsets (from crond_job::minute)*)
(* holding true; off and len are the offset and declared length of field.  *)
(***************************************************************************)
crond_set_field_range(bools, off, len, start, end) ==
  bools \cup { off + i : i \in { j \in start..end :
                                   j < len \/ build.store = "adjacent" } }

(***************************************************************************)
(* The for loops of crond_parse_field_int that copy at most two digits.    *)
(***************************************************************************)
ReadDigits(s, idx) ==
  IF ~isdigit(At(s, idx)) THEN [digit |-> <<>>, idx |-> idx]
  ELSE IF ~isdigit(At(s, idx + 1))
       THEN [digit |-> <<At(s, idx)>>, idx |-> idx + 1]
       ELSE [digit |-> <<At(s, idx), At(s, idx + 1)>>, idx |-> idx + 2]

(***************************************************************************)
(* The do-while loop of crond_parse_field_int: one value or range per      *)
(* iteration, repeated while a comma follows.  The operators below are the *)
(* successive parts of one iteration; each returns the loop's result       *)
(* [rc, idx, bools].                                                       *)
(***************************************************************************)
RECURSIVE FieldItems(_, _, _, _, _, _, _)

\* The end of an iteration: has_comma and the loop condition.
ItemNext(s, idx, bools, rc, off, field_len, offset) ==
  IF At(s, idx) = ","
  THEN FieldItems(s, idx + 1, bools, rc, off, field_len, offset)
  ELSE [rc |-> rc, idx |-> idx, bools |-> bools]

\* A faulty variant of ItemSet, without the check of d1 against field_len.
ItemSetUnchecked(s, idx, d1, d2, bools, rc, off, field_len, offset) ==
  IF d2 = SIZE_MAX
  THEN ItemNext(s, idx, crond_set_field_range(bools, off, field_len, d1, d1),
                rc, off, field_len, offset)
  ELSE ItemNext(s, idx,
                crond_set_field_range(
                  bools, off, field_len,
                  IF d1 > d2 THEN d2 ELSE d1,
                  IF (IF d1 > d2 THEN d1 ELSE d2) >= field_len THEN field_len
                  ELSE (IF d1 > d2 THEN d1 ELSE d2)),
                rc, off, field_len, offset)

\* The range check, the swap, the clamp and the call of set_field_range.
\* d1 and d2 are the size_t values computed from the digits.
ItemSet(s, idx, d1, d2, bools, rc, off, field_len, offset) ==
  IF d1 >= field_len
  THEN ItemNext(s, idx, bools, -1, off, field_len, offset)
  ELSE IF d2 = SIZE_MAX
  THEN ItemNext(s, idx, crond_set_field_range(bools, off, field_len, d1, d1),
                rc, off, field_len, offset)
  ELSE ItemNext(s, idx,
                crond_set_field_range(
                  bools, off, field_len,
                  IF d1 > d2 THEN d2 ELSE d1,
                  IF (IF d1 > d2 THEN d1 ELSE d2) >= field_len THEN field_len
                  ELSE (IF d1 > d2 THEN d1 ELSE d2)),
                rc, off, field_len, offset)

\* After a '-': the second number.  r1 and r2 are the results of ReadDigits.
ItemDash(s, r1, r2, bools, rc, off, field_len, offset) ==
  IF r2.digit = <<>> THEN [rc |-> -1, idx |-> r2.idx, bools |-> bools]
  ELSE ItemSet(s, r2.idx,
               SizeSub(crond_strtoul_field(r1.digit), offset),
               SizeSub(crond_strtoul_field(r2.digit), offset),
               bools, rc, off, field_len, offset)

\* After the first number.
ItemFirst(s, r1, bools, rc, off, field_len, offset) ==
  IF r1.digit = <<>> THEN [rc |-> -1, idx |-> r1.idx, bools |-> bools]
  ELSE IF At(s, r1.idx) = "-"
  THEN ItemDash(s, r1, ReadDigits(s, r1.idx + 1), bools, rc, off, field_len, offset)
  ELSE ItemSet(s, r1.idx, SizeSub(crond_strtoul_field(r1.digit), offset),
               SIZE_MAX, bools, rc, off, field_len, offset)

FieldItems(s, idx, bools, rc, off, field_len, offset) ==
  ItemFirst(s, ReadDigits(s, idx), bools, rc, off, field_len, offset)

\* The closing crond_crontab_parse_blank of crond_parse_field_int: no blank
\* after the field is a failure.  r is the result so far.
FieldEnd(s, r, after) ==
  [rc |-> IF after - r.idx = 0 THEN -1 ELSE r.rc, idx |-> after, bools |-> r.bools]

FieldBlank(s, r) == FieldEnd(s, r, crond_crontab_parse_blank(s, r.idx))

(***************************************************************************)
(* crond_parse_field_int: parse one time field at idx into the bool array  *)
(* at offset off.  Returns rc (0 or -1), the new index and the bools.      *)
(***************************************************************************)
crond_parse_field_int(s, idx, bools, off, field_len, offset) ==
  IF At(s, idx) = "*"
  THEN FieldBlank(s, [rc |-> 0, idx |-> idx + 1,
                      bools |-> crond_set_field_range(bools, off, field_len,
                                                      0, field_len)])
  ELSE The({ FieldBlank(s, r) :
             r \in {FieldItems(s, idx, bools, 0, off, field_len, offset)} })

(***************************************************************************)
(* A job (struct crond_job): command, stdin_lines (NULL when there is      *)
(* none; otherwise it ends with a newline), stdin_lines_len, and bools:    *)
(* the offsets of the true elements of minute, hour, day, month, weekday   *)
(* and pad.                                                                *)
(***************************************************************************)
ZeroJob ==
  [command |-> NULL, stdin_lines |-> NULL, stdin_lines_len |-> 0, bools |-> {}]

\* sizeof(struct crond_job): two pointers, one size_t and the bool arrays.
SizeofJob == 3 * 8 + LenBools

\* A faulty variant of FindSplit, which stops at any '%'.
RECURSIVE FindSplitAnyPercent(_, _)
FindSplitAnyPercent(s, i) ==
  IF At(s, i) = NUL THEN i
  ELSE IF At(s, i) = "%" THEN i
  ELSE FindSplitAnyPercent(s, i + 1)

\* The index of the first '%' at or after i that is not preceded by a
\* backslash, or the index of the terminating NUL.
RECURSIVE FindSplit(_, _)
FindSplit(s, i) ==
  IF At(s, i) = NUL THEN i
  ELSE IF At(s, i) = "%" /\ i > 0 /\ At(s, i - 1) # "\\" THEN i
  ELSE FindSplit(s, i + 1)

\* A faulty variant of UnescapeLoop, in which a backslash escapes nothing.
RECURSIVE UnescapeLoopNoEscape(_, _, _)
UnescapeLoopNoEscape(s, i_fwd, out) ==
  IF At(s, i_fwd) = NUL THEN out
  ELSE IF At(s, i_fwd) = "%"
       THEN UnescapeLoopNoEscape(s, i_fwd + 1, Append(out, "\n"))
       ELSE UnescapeLoopNoEscape(s, i_fwd + 1, Append(out, At(s, i_fwd)))

\* The in-place loop over stdin_lines: i_fwd reads, out collects the bytes
\* written at i.
RECURSIVE UnescapeLoop(_, _, _)
UnescapeLoop(s, i_fwd, out) ==
  IF At(s, i_fwd) = NUL THEN out
  ELSE IF At(s, i_fwd) = "\\" /\ At(s, i_fwd + 1) # NUL
       THEN UnescapeLoop(s, i_fwd + 2, Append(out, At(s, i_fwd + 1)))
       ELSE IF At(s, i_fwd) = "%"
            THEN UnescapeLoop(s, i_fwd + 1, Append(out, "\n"))
            ELSE UnescapeLoop(s, i_fwd + 1, Append(out, At(s, i_fwd)))

(***************************************************************************)
(* crond_crontab_parse_command: split the command section at line_idx.     *)
(* fail names the allocation that fails, if any.  i is the index the first *)
(* loop stops at.                                                          *)
(***************************************************************************)
StdinLines(job, body) ==
  [job EXCEPT !.stdin_lines = Append(body, "\n"),
              !.stdin_lines_len = Len(body) + 1]

CommandAt(s, line_idx, i, job, fail) ==
  IF fail = "strndup"
  THEN [parsed |-> FALSE, job |-> job]
  ELSE IF At(s, i) # "%"
  THEN [parsed |-> TRUE, job |-> [job EXCEPT !.command = Slice(s, line_idx, i)]]
  ELSE IF fail = "strdup"
  THEN [parsed |-> FALSE, job |-> job]
  ELSE [parsed |-> TRUE,
        job |-> StdinLines([job EXCEPT !.command = Slice(s, line_idx, i)],
                           UnescapeLoop(Slice(s, i + 1, Len(s)), 0, <<>>))]

crond_crontab_parse_command(s, line_idx, job, fail) ==
  CommandAt(s, line_idx, FindSplit(s, line_idx),
            [job EXCEPT !.stdin_lines_len = 0], fail)

\* A faulty variant of crond_errx_noexit, which only prints the message.
crond_errx_noexit_print(c) == [c EXCEPT !.errx = TRUE]

(***************************************************************************)
(* crond_errx_noexit on context c: the failure status is set and the       *)
(* message printed.                                                        *)
(***************************************************************************)
crond_errx_noexit(c) == [c EXCEPT !.status_code = EXIT_FAILURE, !.errx = TRUE]

(***************************************************************************)
(* crond_reallocarray: NULL when the size wraps or realloc fails.  The     *)
(* failure "si_mul_size_t" is the multiplication reporting a wrap.         *)
(***************************************************************************)
crond_reallocarray(nmemb, size, fail) ==
  IF si_mul_size_t(nmemb, size).wraps = 1 \/ fail = "si_mul_size_t"
     \/ fail = "realloc"
  THEN NULL
  ELSE <<si_mul_size_t(nmemb, size).result>>

\* A faulty variant of crond_job_append, which stores the job whatever
\* crond_reallocarray returns.
crond_job_append_unchecked(c, job, fail) ==
  [appended |-> TRUE, c |-> [c EXCEPT !.job_list = Append(@, job)]]

(***************************************************************************)
(* crond_job_append: the context with the job appended, or with the error  *)
(* recorded (crond_errx_noexit) and the list as it was.                    *)
(***************************************************************************)
crond_job_append(c, job, fail) ==
  IF crond_reallocarray(Len(c.job_list) + 1, SizeofJob, fail) = NULL
  THEN [appended |-> FALSE, c |-> crond_errx_noexit(c)]
  ELSE [appended |-> TRUE, c |-> [c EXCEPT !.job_list = Append(@, job)]]

(***************************************************************************)
(* The special strings of crond_crontab_parse_line.                        *)
(***************************************************************************)
STR_YEARLY   == <<"y", "e", "a", "r", "l", "y">>
STR_ANNUALLY == <<"a", "n", "n", "u", "a", "l", "l", "y">>
STR_MONTHLY  == <<"m", "o", "n", "t", "h", "l", "y">>
STR_WEEKLY   == <<"w", "e", "e", "k", "l", "y">>
STR_DAILY    == <<"d", "a", "i", "l", "y">>
STR_MIDNIGHT == <<"m", "i", "d", "n", "i", "g", "h", "t">>
STR_HOURLY   == <<"h", "o", "u", "r", "l", "y">>

\* strncmp(&line[i], tok, strlen(tok)) == 0
StrnEq(s, i, tok) == \A k \in 1..Len(tok) : At(s, i + k - 1) = tok[k]

\* A faulty variant of SetSpecial, which leaves the weekdays out.
SetSpecialNoWeekday(mi, ho, da, mo, wd) ==
  crond_set_field_range(
    crond_set_field_range(
      crond_set_field_range(
        crond_set_field_range({}, OffMinute, LenMinute, mi[1], mi[2]),
        OffHour, LenHour, ho[1], ho[2]),
      OffDay, LenDay, da[1], da[2]),
    OffMonth, LenMonth, mo[1], mo[2])

\* The five set_field_range calls of one special string; each argument is
\* [lo, hi] for minute, hour, day, month, weekday.
SetSpecial(mi, ho, da, mo, wd) ==
  crond_set_field_range(
    crond_set_field_range(
      crond_set_field_range(
        crond_set_field_range(
          crond_set_field_range({}, OffMinute, LenMinute, mi[1], mi[2]),
          OffHour, LenHour, ho[1], ho[2]),
        OffDay, LenDay, da[1], da[2]),
      OffMonth, LenMonth, mo[1], mo[2]),
    OffWeekday, LenWeekday, wd[1], wd[2])

\* The '@' branch: valid, the index after the token, and the bools.
ParseSpecial(s, i) ==
  IF StrnEq(s, i, STR_YEARLY) \/ StrnEq(s, i, STR_ANNUALLY)
  THEN [valid |-> TRUE,
        idx |-> IF At(s, i) = STR_YEARLY[1] THEN i + Len(STR_YEARLY)
                                           ELSE i + Len(STR_ANNUALLY),
        bools |-> SetSpecial(<<0, 0>>, <<0, 0>>, <<0, 0>>, <<0, 0>>,
                             <<0, LenWeekday>>)]
  ELSE IF StrnEq(s, i, STR_MONTHLY)
  THEN [valid |-> TRUE, idx |-> i + Len(STR_MONTHLY),
        bools |-> SetSpecial(<<0, 0>>, <<0, 0>>, <<0, 0>>, <<0, LenMonth>>,
                             <<0, LenWeekday>>)]
  ELSE IF StrnEq(s, i, STR_WEEKLY)
  THEN [valid |-> TRUE, idx |-> i + Len(STR_WEEKLY),
        bools |-> SetSpecial(<<0, 0>>, <<0, 0>>, <<0, LenDay>>, <<0, LenMonth>>,
                             <<0, 0>>)]
  ELSE IF StrnEq(s, i, STR_DAILY) \/ StrnEq(s, i, STR_MIDNIGHT)
  THEN [valid |-> TRUE,
        idx |-> IF At(s, i) = STR_DAILY[1] THEN i + Len(STR_DAILY)
                                          ELSE i + Len(STR_MIDNIGHT),
        bools |-> SetSpecial(<<0, 0>>, <<0, 0>>, <<0, LenDay>>, <<0, LenMonth>>,
                             <<0, LenWeekday>>)]
  ELSE IF StrnEq(s, i, STR_HOURLY)
  THEN [valid |-> TRUE, idx |-> i + Len(STR_HOURLY),
        bools |-> SetSpecial(<<0, 0>>, <<0, LenHour>>, <<0, LenDay>>,
                             <<0, LenMonth>>, <<0, LenWeekday>>)]
  ELSE [valid |-> FALSE, idx |-> i, bools |-> {}]

\* One operand of the || chain over the five crond_parse_field_int calls:
\* a failing field ends the chain.  prev is the result of the fields before.
NextField(s, prev, off, field_len, offset) ==
  IF prev.rc < 0 THEN prev
  ELSE crond_parse_field_int(s, prev.idx, prev.bools, off, field_len, offset)

FieldsResult(f) == [valid |-> f.rc >= 0, idx |-> f.idx, bools |-> f.bools]

ParseFields(s, i) ==
  The({ FieldsResult(weekday) :
        weekday \in { NextField(s, month, OffWeekday, LenWeekday, 0) :
        month \in { NextField(s, day, OffMonth, LenMonth, 1) :
        day \in { NextField(s, hour, OffDay, LenDay, 1) :
        hour \in { NextField(s, minute, OffHour, LenHour, 0) :
        minute \in { crond_parse_field_int(s, i, {}, OffMinute, LenMinute, 0) }
        } } } } })

\* if(valid_line == true): the command section, then the append.
AppendParsed(c, cmd, fail) ==
  IF ~cmd.parsed THEN c ELSE crond_job_append(c, cmd.job, fail).c

LineTail(c, s, t, fail) ==
  IF ~t.valid THEN c
  ELSE The({ AppendParsed(c, cmd, fail) :
             cmd \in { crond_crontab_parse_command(
                         s, crond_crontab_parse_blank(s, t.idx),
                         [ZeroJob EXCEPT !.bools = t.bools], fail) } })

LineAt(c, s, i, fail) ==
  IF At(s, i) = NUL \/ At(s, i) = "#" THEN c
  ELSE IF At(s, i) = "@"
  THEN The({ LineTail(c, s, t, fail) : t \in {ParseSpecial(s, i + 1)} })
  ELSE The({ LineTail(c, s, t, fail) : t \in {ParseFields(s, i)} })

(***************************************************************************)
(* crond_crontab_parse_line on context c (a struct crond, see CtxOf): the  *)
(* context afterwards.                                                     *)
(***************************************************************************)
crond_crontab_parse_line(c, s, fail) ==
  LineAt(c, s, crond_crontab_parse_blank(s, 0), fail)

(***************************************************************************)
(* crond_job_should_run.  t is the broken-down time crond::tm points to.   *)
(* The indices tm_mon - 1 and tm_mday - 1 are below the array when the     *)
(* field is 0: the load is then outside month[] or day[].                  *)
(***************************************************************************)
LoadBool(bools, off, len, i) ==
  IF (i >= 0 /\ i < len) \/ build.load = "adjacent"
  THEN (off + i) \in bools
  ELSE build.load = "true"

crond_job_should_run(t, job) ==
  /\ LoadBool(job.bools, OffWeekday, LenWeekday, t.tm_wday)
  /\ LoadBool(job.bools, OffMonth,   LenMonth,   t.tm_mon - 1)
  /\ LoadBool(job.bools, OffDay,     LenDay,     t.tm_mday - 1)
  /\ LoadBool(job.bools, OffHour,    LenHour,    t.tm_hour)
  /\ LoadBool(job.bools, OffMinute,  LenMinute,  t.tm_min)

(***************************************************************************)
(* Input text for the parser harness.                                      *)
(***************************************************************************)
\* Longest stdin section drawn for the command samples.
MaxPayloadLen == 3
\* Rounds of the harness: calls of crond_crontab_parse_line on each context.
MaxCalls == 2

SP  == <<" ">>
Cmd == <<"c">>

\* The decimal text of n in 0..99, without leading zero.
Num(n) == IF n < 10 THEN <<Digits[n + 1]>>
          ELSE <<Digits[(n \div 10) + 1], Digits[(n % 10) + 1]>>

Star == <<"*">>
Range(a, b) == Num(a) \o <<"-">> \o Num(b)

Line5(f1, f2, f3, f4, f5, cmd) ==
  f1 \o SP \o f2 \o SP \o f3 \o SP \o f4 \o SP \o f5 \o SP \o cmd

\* A line whose field k (1..5) is text f and whose other fields are '*'.
LineWith(k, f, cmd) ==
  Line5(IF k = 1 THEN f ELSE Star, IF k = 2 THEN f ELSE Star,
        IF k = 3 THEN f ELSE Star, IF k = 4 THEN f ELSE Star,
        IF k = 5 THEN f ELSE Star, cmd)

\* Declared length and input offset of time field k.
FieldLen(k) == <<LenMinute, LenHour, LenDay, LenMonth, LenWeekday>>[k]
FieldOffset(k) == <<0, 0, 1, 1, 0>>[k]
FieldOff(k) == <<OffMinute, OffHour, OffDay, OffMonth, OffWeekday>>[k]

\* Singleton values drawn per field: the first and the last valid input.
SingleSamples(k) == {FieldOffset(k), FieldLen(k) - 1 + FieldOffset(k)}

SingletonLines ==
  { Line5(Num(m), Num(h), Num(d), Num(mo), Num(w), Cmd) :
      m \in SingleSamples(1), h \in SingleSamples(2), d \in SingleSamples(3),
      mo \in SingleSamples(4), w \in SingleSamples(5) }

\* Values around the limits of field k, valid and not.
EdgeSamples(k) ==
  {0, 1, 5, FieldLen(k) - 1 + FieldOffset(k), FieldLen(k) + FieldOffset(k), 99}

EdgeLines == { LineWith(k, Num(v), Cmd) : k \in 1..5, v \in 0..1 } \cup
             UNION { { LineWith(k, Num(v), Cmd) : v \in EdgeSamples(k) } : k \in 1..5 }

\* A range a-b in field k for context 1 and b-a for the others.
RangePairs ==
  UNION { { <<LineWith(k, Range(ab[1], ab[2]), Cmd),
              LineWith(k, Range(ab[2], ab[1]), Cmd)>> :
              ab \in { x \in EdgeSamples(k) \X EdgeSamples(k) : x[1] <= x[2] } } :
          k \in 1..5 }

\* Command sections: a command and the text after its first '%'.
PayloadChars == {"a", "%", "\\"}
RECURSIVE Texts(_)
Texts(n) == IF n = 0 THEN {<<>>}
            ELSE Texts(n - 1) \cup
                 { Append(t, ch) : t \in { u \in Texts(n - 1) : Len(u) = n - 1 },
                                   ch \in PayloadChars }

CommandSections ==
  {Cmd, <<"c", "\\", "%", "d">>} \cup
  { Cmd \o <<"%">> \o t : t \in Texts(MaxPayloadLen) }

CommandLines == { LineWith(1, Star, cs) : cs \in CommandSections }

\* Command sections with the split anywhere or nowhere: every text over
\* PayloadChars, alone and after a command byte.
SplitSections ==
  (Texts(MaxPayloadLen) \ {<<>>}) \cup { Cmd \o t : t \in Texts(MaxPayloadLen) }

SplitLines == { LineWith(1, Star, cs) : cs \in SplitSections }

\* A special string and its five-field expansion, with the same command.
Special(tok, cs) == <<"@">> \o tok \o SP \o cs
SpecialTable ==
  { <<STR_YEARLY,   Num(0), Num(0), Num(1), Num(1), Star>>,
    <<STR_ANNUALLY, Num(0), Num(0), Num(1), Num(1), Star>>,
    <<STR_MONTHLY,  Num(0), Num(0), Num(1), Star,   Star>>,
    <<STR_WEEKLY,   Num(0), Num(0), Star,   Star,   Num(0)>>,
    <<STR_DAILY,    Num(0), Num(0), Star,   Star,   Star>>,
    <<STR_MIDNIGHT, Num(0), Num(0), Star,   Star,   Star>>,
    <<STR_HOURLY,   Num(0), Star,   Star,   Star,   Star>> }
SpecialCommands == {Cmd, <<"c", "%", "a", "\\", "%", "%">>}
SpecialPairs ==
  { <<Special(e[1], cs), Line5(e[2], e[3], e[4], e[5], e[6], cs)>> :
      e \in SpecialTable, cs \in SpecialCommands }

\* Lists, repeated blanks, comments and malformed lines.
OtherLines ==
  { <<>>, <<" ", "\t">>, <<"#", "c">>, <<" ", "#", " ", "c">>,
    <<"@", "b", "o", "g", "u", "s", " ", "c">>, <<"@">>,
    <<"@", "h", "o", "u", "r", "l", "y", "c">>,
    <<"@", "h", "o", "u", "r", "l", "y">>,
    <<"*", " ", "*", " ", "*", " ", "*", " ", "*">>,
    <<"*", " ", "*", " ", "*", " ", "*", " ", "*", " ">>,
    <<"*", " ", "*", " ", "*", " ", "*", " ", "c">>,
    <<" ", "*", "\t", " ", "*", " ", "*", " ", "*", " ", "*", "\t", "c", " ", "d">>,
    LineWith(1, <<"1", ",", "2">>, Cmd), LineWith(2, <<"1", "-", "3", ",", "7">>, Cmd),
    LineWith(3, <<"1", ",">>, Cmd), LineWith(1, <<"-", "5">>, Cmd),
    LineWith(1, <<"1", "-">>, Cmd), LineWith(1, <<"1", "2", "3">>, Cmd),
    LineWith(4, <<"*", "*">>, Cmd), LineWith(5, <<"*", "5">>, Cmd),
    LineWith(5, <<"x">>, Cmd), LineWith(2, <<"6", "0", ",", "1">>, Cmd),
    LineWith(3, <<"3", "1", ",", "5", "-", "0">>, Cmd),
    LineWith(1, <<"0", "5">>, Cmd), LineWith(5, <<"0", "-", "6">>, Cmd) }

\* The values of EdgeSamples(k) whose index is outside field k.
OutOfRange(k) ==
  { v \in EdgeSamples(k) : v < FieldOffset(k) \/ v - FieldOffset(k) >= FieldLen(k) }

\* Field texts holding such a value: alone, and before or after a valid
\* value in a list.
OutOfRangeTexts(k) ==
  UNION { { Num(v), Num(v) \o <<",">> \o Num(FieldOffset(k)),
            Num(FieldOffset(k)) \o <<",">> \o Num(v) } : v \in OutOfRange(k) }

OutOfRangeLines ==
  UNION { { LineWith(k, f, Cmd) : f \in OutOfRangeTexts(k) } : k \in 1..5 } \cup
  { Line5(Num(0), Num(0), Num(0), Num(1), Num(0), Cmd),
    Line5(Num(0), Num(0), Num(1), Num(0), Num(0), Cmd),
    Line5(Num(0), Num(0), Num(1), Num(1), Num(LenWeekday), Cmd),
    Line5(Num(LenMinute), Num(0), Num(1), Num(1), Num(0), Cmd) }

AllLines == SingletonLines \cup EdgeLines \cup CommandLines \cup SplitLines \cup
            OutOfRangeLines \cup OtherLines \cup
            { p[1] : p \in RangePairs \cup SpecialPairs } \cup
            { p[2] : p \in RangePairs \cup SpecialPairs }

LinePairs == RangePairs \cup SpecialPairs \cup { <<l, l>> : l \in AllLines }

\* The allocation that fails during one call, if any.
AllocFailures == {"none", "strndup", "strdup", "si_mul_size_t", "realloc"}

\* Broken-down local times, in the ranges localtime() produces:
\* tm_mon 0..11 (0 = January), tm_mday 1..31.
TmSamples ==
  [tm_sec : {0}, tm_min : {0, LenMinute - 1}, tm_hour : {0, LenHour - 1},
   tm_mday : {1, LenDay}, tm_mon : {0, 1, LenMonth - 1},
   tm_wday : {0, LenWeekday - 1}]

(***************************************************************************)
(* The daemon: crond_main, one process per context, all started for the    *)
(* same schedule path and so sharing one lock file path.                   *)
(***************************************************************************)
\* System calls that can be made to fail, MaxFaults times in a behaviour.
MaxFaults == 1
\* The schedule file is replaced or removed while its modification time is
\* at most MaxEdits.
MaxEdits == 1
\* struct crond after memset(&crond, 0, sizeof(crond)).
ZeroCrond ==
  [status_code |-> 0, errx |-> FALSE, job_list |-> NULL, mtime_crontab |-> 0,
   tm |-> NULL, fd_lock_file |-> 0]

\* The context of daemon (or harness context) c as one record.
CtxOf(c) ==
  [status_code |-> status_code[c], errx |-> errx[c], job_list |-> job_list[c],
   mtime_crontab |-> mtime_crontab[c], tm |-> tm[c],
   fd_lock_file |-> fd_lock_file[c]]

\* Context c becomes record r.
SetCtx(c, r) ==
  /\ status_code' = [status_code EXCEPT ![c] = r.status_code]
  /\ errx' = [errx EXCEPT ![c] = r.errx]
  /\ job_list' = [job_list EXCEPT ![c] = r.job_list]
  /\ mtime_crontab' = [mtime_crontab EXCEPT ![c] = r.mtime_crontab]
  /\ tm' = [tm EXCEPT ![c] = r.tm]
  /\ fd_lock_file' = [fd_lock_file EXCEPT ![c] = r.fd_lock_file]

\* The schedule files the daemons meet: none, or one of these texts.  Their
\* fields are single values: parsing them writes inside the arrays only.
NL == <<"\n">>
CrontabTexts ==
  { Line5(Num(0), Num(0), Num(1), Num(1), Num(0), Cmd) \o NL \o <<"x">> \o NL }

\* mtime counts the versions of the file from 1: no file has the zeroed
\* timespec as its modification time.
NoCrontab == [exists |-> FALSE, mtime |-> 1, text |-> <<>>]

InitialCrontabs ==
  {NoCrontab} \cup { [exists |-> TRUE, mtime |-> 1, text |-> t] : t \in CrontabTexts }

\* More schedule files: two jobs; a last line that no newline ends.
FileTexts ==
  CrontabTexts \cup
  { Line5(Num(0), Num(0), Num(1), Num(1), Num(0), Cmd) \o NL \o
    Line5(Num(59), Num(0), Num(1), Num(1), Num(0), <<"d">>) \o NL,
    <<"x">> \o NL \o Line5(Num(0), Num(0), Num(1), Num(1), Num(0), <<"c", "d">>) }

\* The files of InitialCrontabs, and files of every text whose modification
\* time is the epoch (the zeroed timespec) or later.
InitialFiles ==
  InitialCrontabs \cup
  { [exists |-> TRUE, mtime |-> m, text |-> t] : m \in {0, 1}, t \in FileTexts }

\* The local times the daemons' clock reads show: their month and day index
\* inside the arrays.
DaemonTimes ==
  { t \in TmSamples : t.tm_hour = 0 /\ t.tm_mday = 1 /\ t.tm_mon = 1 /\ t.tm_wday = 0 }

\* What a daemon has done so far.
NoHist ==
  [entered  |-> FALSE,  \* the body of the main loop was entered
   eexist   |-> FALSE,  \* open() of the lock file failed with EEXIST
   created  |-> FALSE,  \* open() created the lock file
   closed   |-> FALSE,  \* close() was called on the lock descriptor
   removed  |-> "no",   \* remove() of the lock file: "no" call, "ok", "failed"
   failed   |-> "none", \* the last system call of the daemon that failed
   sleeps   |-> 0,      \* sleep() calls begun with a shutdown flag already set
   sighup   |-> "no"]   \* "stale": SIGHUP has ended a sleep() with the schedule
                        \* file changed, and no stat() has succeeded since

\* Number of runs of the crontab utility that are followed.
NumUtil == 2

\* A run of the crontab utility that has not called crontab_file_set yet:
\* fd is the file its FILE *fp_out writes to, off the offset of fd,
\* status_code is crontab::status_code.
NewUtil == [pc |-> "start", fd |-> 0, off |-> 0, status_code |-> 0]

\* No run of the utility has begun.  ino holds the files the runs create,
\* each with text and mtime; tmp and path are the files that the names
\* crontab::path_crontab_tmp and crontab::path_crontab refer to (an index of
\* ino; 0: no file of ino, so that path is the file the daemon started
\* with); clock is the latest modification time given to a file.
NoEdit ==
  [ino |-> <<>>, tmp |-> 0, path |-> 0, clock |-> 1,
   util |-> [u \in 1..NumUtil |-> NewUtil]]

\* A process not yet started; exit_status is <<the value crond_main
\* returned>> once it has returned.
NewProc == [handlers |-> FALSE, sleep_sec |-> 0, exit_status |-> <<>>]

\* No daemon process exists yet.
\* The wall clock: now is the seconds since the daemon was started at the
\* beginning of a minute, wake the time at which the sleep() in progress
\* ends, launched the pairs <<position in the store, minute>> of the jobs
\* that were launched.
NoWall == [now |-> 0, wake |-> 0, launched |-> {}]

InitDaemons ==
  /\ fd_lock_file = [c \in Ctx |-> 0]
  /\ path_crontab = [c \in Ctx |-> NULL]
  /\ g_signal_sigterm = [c \in Ctx |-> 0]
  /\ g_signal_sigint = [c \in Ctx |-> 0]
  /\ pc = [c \in Ctx |-> "start"]
  /\ proc = [c \in Ctx |-> NewProc]
  /\ lock_file = 0
  /\ faults = 0
  /\ hist = [c \in Ctx |-> NoHist]
  /\ jobmon = <<>>
  /\ edit = NoEdit
  /\ wall = NoWall

\* A system call fails (f names it) only while the budget lasts.
Fault(f) ==
  /\ f = "none" \/ faults < MaxFaults
  /\ faults' = IF f = "none" THEN faults ELSE faults + 1

\* The last failed call of daemon c after a step in which f fails.
FailedCall(c, f) == IF f = "none" THEN hist[c].failed ELSE f

(***************************************************************************)
(* cron_get_path_crontab: NULL when the home directory is unknown or an    *)
(* allocation fails.                                                       *)
(***************************************************************************)
PATH_CRONTAB == <<"/", ".", "c", "o", "n", "f", "i", "g", "/", ".", "c", "r", "o", "n", "t", "a", "b">>

cron_get_path_crontab(f) ==
  IF f = "path_crontab" \/ si_add_size_t(1, Len(PATH_CRONTAB) + 1).wraps = 1
  THEN NULL
  ELSE << <<"~">> \o PATH_CRONTAB >>

(***************************************************************************)
(* crond_crontab_has_changed.  sb is the outcome of stat(path_crontab).    *)
(***************************************************************************)
cron_stat(file, f) ==
  IF f = "stat" THEN [rc |-> -1, errno |-> "ENOMEM", st_mtim |-> 0]
  ELSE IF ~file.exists THEN [rc |-> -1, errno |-> "ENOENT", st_mtim |-> 0]
  ELSE [rc |-> 0, errno |-> "", st_mtim |-> file.mtime]

\* A faulty variant of crond_crontab_has_changed, which takes a missing file
\* for an unchanged one.
crond_crontab_has_changed_enoent(c, sb) ==
  IF sb.rc = 0
  THEN IF c.mtime_crontab # sb.st_mtim
       THEN [has_changed |-> TRUE, c |-> [c EXCEPT !.mtime_crontab = sb.st_mtim]]
       ELSE [has_changed |-> FALSE, c |-> c]
  ELSE IF sb.errno = "ENOENT"
       THEN [has_changed |-> FALSE, c |-> c]
       ELSE [has_changed |-> FALSE, c |-> crond_errx_noexit(c)]

\* A faulty variant of crond_crontab_has_changed, which does not record the
\* failure of stat().
crond_crontab_has_changed_silent(c, sb) ==
  IF sb.rc = 0
  THEN IF c.mtime_crontab # sb.st_mtim
       THEN [has_changed |-> TRUE, c |-> [c EXCEPT !.mtime_crontab = sb.st_mtim]]
       ELSE [has_changed |-> FALSE, c |-> c]
  ELSE IF sb.errno = "ENOENT"
       THEN IF c.mtime_crontab # 0
            THEN [has_changed |-> TRUE, c |-> [c EXCEPT !.mtime_crontab = 0]]
            ELSE [has_changed |-> FALSE, c |-> c]
       ELSE [has_changed |-> FALSE, c |-> c]

crond_crontab_has_changed(c, sb) ==
  IF sb.rc = 0
  THEN IF c.mtime_crontab # sb.st_mtim
       THEN [has_changed |-> TRUE, c |-> [c EXCEPT !.mtime_crontab = sb.st_mtim]]
       ELSE [has_changed |-> FALSE, c |-> c]
  ELSE IF sb.errno = "ENOENT"
       THEN IF c.mtime_crontab # 0
            THEN [has_changed |-> TRUE, c |-> [c EXCEPT !.mtime_crontab = 0]]
            ELSE [has_changed |-> FALSE, c |-> c]
       ELSE [has_changed |-> FALSE, c |-> crond_errx_noexit(c)]

crond_job_list_free(c) == [c EXCEPT !.job_list = NULL]

(***************************************************************************)
(* crond_crontab_reparse.  getline() returns the bytes up to and including *)
(* the next newline, or up to the end of the file; the last byte read is   *)
(* replaced by NUL before the line is parsed.  pos is 1-based.             *)
(***************************************************************************)
RECURSIVE getline(_, _)
getline(text, pos) ==
  IF pos >= Len(text) \/ text[pos] = "\n" THEN pos ELSE getline(text, pos + 1)

RECURSIVE ReadLines(_, _, _, _)
ReadLine(c, text, pos, last, fail) ==
  The({ ReadLines(parsed, text, last + 1, fail) :
        parsed \in { crond_crontab_parse_line(c, s, fail) :
                     s \in {SubSeq(text, pos, last - 1)} } })

ReadLines(c, text, pos, fail) ==
  IF pos > Len(text) THEN c
  ELSE The({ ReadLine(c, text, pos, last, fail) : last \in {getline(text, pos)} })

\* The allocation that fault f makes fail while the lines are parsed.
AllocOf(f) == IF f \in AllocFailures THEN f ELSE "none"

CloseFile(c, f) ==
  IF f = "ferror" \/ f = "fclose"
  THEN crond_job_list_free(crond_errx_noexit(c))
  ELSE c

Reparsed(hc, file, f) ==
  IF ~hc.has_changed THEN hc.c
  ELSE IF ~file.exists \/ f = "fopen" THEN crond_job_list_free(hc.c)
  ELSE CloseFile(ReadLines(crond_job_list_free(hc.c),
                           IF f = "ferror" THEN <<>> ELSE file.text, 1, AllocOf(f)),
                 f)

crond_crontab_reparse(c, file, f) ==
  The({ Reparsed(hc, file, f) :
        hc \in {crond_crontab_has_changed(c, cron_stat(file, f))} })

(***************************************************************************)
(* crond_gettime: t is the local time the clock shows.                     *)
(***************************************************************************)
\* A faulty variant of crond_gettime, which clears the status code when it
\* succeeds.
crond_gettime_clearing(c, t, f) ==
  IF f = "clock_gettime" THEN crond_errx_noexit(c)
  ELSE IF f = "localtime" THEN crond_errx_noexit([c EXCEPT !.tm = NULL])
  ELSE [c EXCEPT !.tm = <<t>>, !.status_code = EXIT_SUCCESS]

crond_gettime(c, t, f) ==
  IF f = "clock_gettime" THEN crond_errx_noexit(c)
  ELSE IF f = "localtime" THEN crond_errx_noexit([c EXCEPT !.tm = NULL])
  ELSE [c EXCEPT !.tm = <<t>>]

(***************************************************************************)
(* crond_lock_file_create.  open() with O_CREAT | O_EXCL returns the       *)
(* lowest free descriptor of the process, or -1: with EEXIST when the file *)
(* exists (holder is the daemon that made it, 0 when there is none).       *)
(***************************************************************************)
\* A faulty variant of open(), without O_EXCL.
open_without_excl(holder, fd_free, f) ==
  IF f = "open" THEN [fd |-> -1, errno |-> "EACCES"]
  ELSE [fd |-> fd_free, errno |-> ""]

open(holder, fd_free, f) ==
  IF f = "open" THEN [fd |-> -1, errno |-> "EACCES"]
  ELSE IF holder # 0 THEN [fd |-> -1, errno |-> "EEXIST"]
  ELSE [fd |-> fd_free, errno |-> ""]

lock_file_suffix == <<".", "l", "o", "c", "k">>

crond_get_path_lock_file(path, f) ==
  IF path = NULL THEN NULL
  ELSE IF si_add_size_t(Len(path[1]), Len(lock_file_suffix) + 1).wraps = 1 THEN NULL
  ELSE IF f = "malloc" THEN NULL
  ELSE <<path[1] \o lock_file_suffix>>

crond_lock_file_create(c, path, o, f) ==
  IF crond_get_path_lock_file(path, f) = NULL THEN crond_errx_noexit(c)
  ELSE IF o.fd < 0 THEN crond_errx_noexit([c EXCEPT !.fd_lock_file = o.fd])
  ELSE [c EXCEPT !.fd_lock_file = o.fd]

(***************************************************************************)
(* crond_lock_file_delete: the context afterwards, whether close() was     *)
(* called and how remove() ended.                                          *)
(***************************************************************************)
crond_lock_file_delete(c, f) ==
  IF c.fd_lock_file > 0
  THEN [c |-> IF f = "close" THEN crond_errx_noexit(c) ELSE c,
        closed |-> TRUE,
        removed |-> IF f = "remove" THEN "failed" ELSE "ok"]
  ELSE [c |-> c, closed |-> FALSE, removed |-> "no"]

(***************************************************************************)
(* crond_should_exit.                                                      *)
(***************************************************************************)
\* A faulty variant of crond_should_exit, which looks at the signals only.
crond_should_exit_signals(c, sigterm, sigint) == ~(sigterm = 0 /\ sigint = 0)

crond_should_exit(c, sigterm, sigint) ==
  ~(c.status_code = 0 /\ sigterm = 0 /\ sigint = 0)

ShouldExit(c) == crond_should_exit(CtxOf(c), g_signal_sigterm[c], g_signal_sigint[c])

(***************************************************************************)
(* The steps of crond_main.                                                *)
(***************************************************************************)
LoopBody ==
  {"reparse", "gettime", "job_list_run", "gettime_again", "should_sleep",
   "sleep", "sleeping", "reap"}

InMainLoop(c) == pc[c] \in LoopBody

Goto(c, l) == pc' = [pc EXCEPT ![c] = l]

\* From the entry of crond_main to crond_signal_set.
Main(c) ==
  /\ pc[c] = "start"
  /\ \E f \in {"none", "getopt", "path_crontab", "sigaction"} :
       /\ Fault(f)
       /\ SetCtx(c, IF f = "none" THEN ZeroCrond ELSE crond_errx_noexit(ZeroCrond))
       /\ path_crontab' = [path_crontab EXCEPT ![c] = cron_get_path_crontab(f)]
       /\ proc' = [proc EXCEPT ![c].handlers = (f # "sigaction")]
       /\ hist' = [hist EXCEPT ![c].failed = FailedCall(c, f)]
  /\ Goto(c, "lock_file_create")
  /\ UNCHANGED <<build, wall, edit, jobmon, hvars, should_run, g_signal_sigterm, g_signal_sigint,
                 lock_file, crontab>>

\* crond_lock_file_create(&crond); o is what open() returns if it is called.
\* The lowest free descriptor of the process is 3, or 0 when the process was
\* started with standard input closed.
LockCreated(c, o, f) ==
  /\ SetCtx(c, crond_lock_file_create(CtxOf(c), path_crontab[c], o, f))
  /\ lock_file' = IF crond_get_path_lock_file(path_crontab[c], f) # NULL /\ o.fd >= 0
                  THEN c ELSE lock_file
  /\ hist' = [hist EXCEPT
       ![c].created = crond_get_path_lock_file(path_crontab[c], f) # NULL /\ o.fd >= 0,
       ![c].eexist = crond_get_path_lock_file(path_crontab[c], f) # NULL
                     /\ o.errno = "EEXIST",
       ![c].failed = FailedCall(c, f)]

LockFileCreate(c) ==
  /\ pc[c] = "lock_file_create"
  /\ \E f \in {"none", "malloc", "open"} :
       /\ Fault(f)
       /\ \E fd_free \in {0, STDERR_FILENO + 1} :
            LockCreated(c, open(lock_file, fd_free, f), f)
  /\ Goto(c, "while")
  /\ UNCHANGED <<build, wall, edit, jobmon, hvars, should_run, path_crontab, g_signal_sigterm,
                 g_signal_sigint, proc, crontab>>

\* while(crond_should_exit(&crond) == false)
While(c) ==
  /\ pc[c] = "while"
  /\ IF ShouldExit(c)
     THEN Goto(c, "cleanup") /\ UNCHANGED hist
     ELSE Goto(c, "reparse") /\ hist' = [hist EXCEPT ![c].entered = TRUE]
  /\ UNCHANGED <<build, wall, edit, jobmon, hvars, cvars, fd_lock_file, path_crontab, g_signal_sigterm,
                 g_signal_sigint, proc, lock_file, crontab, faults>>

\* crond_crontab_reparse(&crond)
Reparse(c) ==
  /\ pc[c] = "reparse"
  /\ \E f \in {"none", "stat", "fopen", "ferror", "fclose",
               "strndup", "strdup", "realloc"} :
       /\ Fault(f)
       /\ \E r \in {crond_crontab_reparse(CtxOf(c), crontab, f)} : SetCtx(c, r)
       /\ hist' = [hist EXCEPT ![c].failed = FailedCall(c, f),
                               ![c].sighup = IF @ = "stale" /\ f # "stat"
                                             THEN "no" ELSE @]
  /\ Goto(c, "gettime")
  /\ UNCHANGED <<build, wall, edit, jobmon, hvars, should_run, path_crontab, g_signal_sigterm,
                 g_signal_sigint, proc, lock_file, crontab>>

\* crond_gettime(&crond), called before and after crond_job_list_run.
GettimeOf(c, from, to, times) ==
  /\ pc[c] = from
  /\ \E f \in {"none", "clock_gettime", "localtime"} :
       /\ Fault(f)
       /\ \E t \in times : SetCtx(c, crond_gettime(CtxOf(c), t, f))
       /\ hist' = [hist EXCEPT ![c].failed = FailedCall(c, f)]
  /\ Goto(c, to)
  /\ UNCHANGED <<build, wall, edit, jobmon, hvars, should_run, path_crontab, g_signal_sigterm,
                 g_signal_sigint, proc, lock_file, crontab>>

Gettime(c, from, to) == GettimeOf(c, from, to, DaemonTimes)

GettimeBefore(c) == Gettime(c, "gettime", "job_list_run")

GettimeAfter(c) == Gettime(c, "gettime_again", "should_sleep")

\* crond_job_list_run: r[k] is the result of crond_job_should_run for job k;
\* crond_job_run is called for each selected job.  The jobmon processes it
\* forks are no part of the daemon's state; JobListRunFork follows them.
crond_job_list_run(c, r) ==
  /\ should_run' = [should_run EXCEPT ![c] = <<r>>]
  /\ Goto(c, "gettime_again")

\* With crond::tm NULL (localtime failed) and a job in the list,
\* crond_job_should_run dereferences NULL: the process is killed, or goes
\* on with whatever it read.
JobListRunOf(c) ==
  /\ pc[c] = "job_list_run"
  /\ \/ /\ job_list[c] = <<>> \/ tm[c] # NULL
        /\ crond_job_list_run(c, [k \in 1..Len(job_list[c]) |->
                                    crond_job_should_run(tm[c][1], job_list[c][k])])
     \/ /\ job_list[c] # <<>> /\ tm[c] = NULL
        /\ \E r \in [1..Len(job_list[c]) -> BOOLEAN] : crond_job_list_run(c, r)
     \/ /\ job_list[c] # <<>> /\ tm[c] = NULL
        /\ Goto(c, "crashed")
        /\ UNCHANGED should_run
  /\ UNCHANGED <<build, edit, jobmon, hvars, status_code, job_list, tm, errx, mtime_crontab,
                 fd_lock_file, path_crontab, g_signal_sigterm, g_signal_sigint,
                 proc, lock_file, crontab, faults, hist>>

JobListRun(c) == JobListRunOf(c) /\ UNCHANGED wall

\* The seconds to sleep without the step that raises 0 to 1.
SleepSecUnraised(tm_sec) == 60 - tm_sec

\* if(crond_should_exit(&crond) == false): the seconds to sleep.
SleepSec(tm_sec) == IF 60 - tm_sec = 0 THEN 1 ELSE 60 - tm_sec

ShouldSleep(c) ==
  /\ pc[c] = "should_sleep"
  /\ IF ShouldExit(c)
     THEN Goto(c, "reap") /\ UNCHANGED proc
     ELSE /\ Goto(c, "sleep")
          /\ proc' = [proc EXCEPT ![c].sleep_sec = SleepSec(tm[c][1].tm_sec)]
  /\ UNCHANGED <<build, wall, edit, jobmon, hvars, cvars, fd_lock_file, path_crontab, g_signal_sigterm,
                 g_signal_sigint, lock_file, crontab, faults, hist>>

\* sleep(sleep_sec) is called ...
SleepOf(c) ==
  /\ pc[c] = "sleep"
  /\ Goto(c, "sleeping")
  /\ hist' = [hist EXCEPT ![c].sleeps =
                IF g_signal_sigterm[c] = 1 \/ g_signal_sigint[c] = 1 THEN @ + 1 ELSE @]
  /\ UNCHANGED <<build, edit, jobmon, hvars, cvars, fd_lock_file, path_crontab, g_signal_sigterm,
                 g_signal_sigint, proc, lock_file, crontab, faults>>

Sleep(c) == SleepOf(c) /\ UNCHANGED wall

\* ... and returns when the time is over.
WakeOf(c) ==
  /\ pc[c] = "sleeping"
  /\ Goto(c, "reap")
  /\ UNCHANGED <<build, edit, jobmon, hvars, cvars, fd_lock_file, path_crontab, g_signal_sigterm,
                 g_signal_sigint, proc, lock_file, crontab, faults, hist>>

Wake(c) == WakeOf(c) /\ UNCHANGED wall

\* crond_reap_jobmon(): waitpid(-1, NULL, WNOHANG) while it finds a zombie.
Running(m) == m.pc \notin {"exited", "killed"}

\* A faulty variant of crond_reap_jobmon, which waits for every child.
crond_reap_jobmon_all(children) == <<>>

\* A faulty variant of crond_reap_jobmon, which calls waitpid() once.
crond_reap_jobmon_once(children) ==
  IF \E i \in DOMAIN children : ~Running(children[i])
  THEN LET i == CHOOSE k \in DOMAIN children :
                  ~Running(children[k]) /\ \A l \in 1..(k - 1) : Running(children[l])
       IN  SubSeq(children, 1, i - 1) \o SubSeq(children, i + 1, Len(children))
  ELSE children

crond_reap_jobmon(children) == SelectSeq(children, Running)

Reap(c) ==
  /\ pc[c] = "reap"
  /\ Goto(c, "while")
  /\ jobmon' = crond_reap_jobmon(jobmon)
  /\ UNCHANGED <<build, wall, edit, hvars, cvars, fd_lock_file, path_crontab, g_signal_sigterm,
                 g_signal_sigint, proc, lock_file, crontab, faults, hist>>

\* After the loop: crond_job_list_free, crond_lock_file_delete, return.
Returned(c, d, f) ==
  /\ SetCtx(c, d.c)
  /\ lock_file' = IF d.removed = "ok" THEN 0 ELSE lock_file
  /\ hist' = [hist EXCEPT ![c].closed = d.closed, ![c].removed = d.removed,
                          ![c].failed = FailedCall(c, f)]
  /\ proc' = [proc EXCEPT ![c].exit_status = <<d.c.status_code>>]

Cleanup(c) ==
  /\ pc[c] = "cleanup"
  /\ \E f \in {"none", "close", "remove"} :
       /\ f = "none" \/ fd_lock_file[c] > 0
       /\ Fault(f)
       /\ Returned(c, crond_lock_file_delete(crond_job_list_free(CtxOf(c)), f), f)
  /\ Goto(c, "done")
  /\ UNCHANGED <<build, wall, edit, jobmon, hvars, should_run, path_crontab, g_signal_sigterm,
                 g_signal_sigint, crontab>>

(***************************************************************************)
(* crond_job_run: the monitor process (jobmon) forked for a job, the       *)
(* command process it forks and the mailx process it forks.  A monitor is  *)
(* one record; its pipes hold the bytes written and not yet read.          *)
(***************************************************************************)
\* Bytes a pipe holds before write() blocks.
PipeCapacity == 2
\* Monitors followed at a time.
MaxJobmon == 2
CRON_READ_BUFFER_SZ == 1000

\* A process that was not forked (yet); pc is then "setup" (between fork
\* and exec), "running", "zombie" (terminated, not waited for), "reaped".
\* The command runs a program that writes out, of which done bytes are
\* written, and reads its stdin to the end or not at all, after it has
\* written its output (out_first) or at any time; got is what mailx has
\* read.
NoCmd ==
  [pc |-> "none", status |-> <<>>, reads |-> FALSE, out_first |-> FALSE, out |-> <<>>,
   done |-> 0]

NoMailx == [pc |-> "none", status |-> <<>>, got |-> <<>>]

\* The monitor at its first instruction after fork().  pipe_write carries
\* the stdin of the command, pipe_read its stdout and stderr, pipe_mailx
\* the stdin of mailx; fd_write is the progress of crond_fd_write.
NewJobmon(job) ==
  [pc |-> "pipe", status |-> <<>>,
   command |-> job.command, stdin_lines |-> job.stdin_lines,
   pipe_write |-> <<>>, pipe_read |-> <<>>, pipe_mailx |-> <<>>,
   fd_write |-> NULL, mail_body |-> NULL,
   cmd |-> NoCmd, mailx |-> NoMailx]

\* crond_job_run in the daemon: fork() of the monitor; a failure is only
\* reported by crond_verbose.
crond_job_run(children, job, f) ==
  IF f = "fork" THEN children ELSE Append(children, NewJobmon(job))

\* What the shell commands do: the bytes they write to stdout and stderr
\* (nothing, less than a pipe holds, or more), whether they read their
\* stdin to its end, and whether they do so only after they have written
\* their output.
LongOutput == [k \in 1..(PipeCapacity + 1) |-> "o"]

Programs ==
  { p \in [reads : BOOLEAN, out_first : BOOLEAN,
           out : {<<>>, <<"o">>, <<"o", "u">>, LongOutput}] :
      p.out_first => p.reads /\ p.out # <<>> }

Terminated(m) == ~Running(m)

Alive(child) == child.pc \in {"setup", "running"}

\* A faulty variant of Exit: the monitor returns from crond_job_run into the
\* loop of crond_job_list_run.
ExitReturns(m, status) == [m EXCEPT !.pc = "job_list_run", !.status = <<status>>]

\* exit(status) in the monitor.
Exit(m, status) == [m EXCEPT !.pc = "exited", !.status = <<status>>]

\* The monitor is terminated by a signal: it has no exit status.
Killed(m) == [m EXCEPT !.pc = "killed"]

\* The monitor holds the write end of the command's stdin.
StdinWriterOpen(m) ==
  \/ m.pc \in {"fork", "close"}
  \/ m.pc = "fd_write" /\ m.fd_write.to = "cmd"

\* The monitor holds the read end of the command's output.
OutputReaderOpen(m) ==
  m.pc \in {"fork", "close", "fd_write", "read", "close_read0"} /\ m.mailx.pc = "none"

\* The monitor holds the write end of the stdin of mailx.
MailxWriterOpen(m) == m.pc = "fd_write" /\ m.fd_write.to = "mailx"

\* A faulty variant of JobmonStep: the monitor shares the memory of the
\* daemon, and its exit(EXIT_FAILURE) is recorded in the daemon's status code.
JobmonStepShared(i, m, f) ==
  /\ Fault(f)
  /\ jobmon' = [jobmon EXCEPT ![i] = m]
  /\ status_code' = [c \in Ctx |-> IF m.status = <<EXIT_FAILURE>>
                                  THEN EXIT_FAILURE ELSE status_code[c]]
  /\ UNCHANGED <<build, wall, edit, hvars, should_run, job_list, tm, errx, mtime_crontab,
                 fd_lock_file, path_crontab, g_signal_sigterm,
                 g_signal_sigint, pc, proc, lock_file, crontab, hist>>

\* Monitor i takes a step to m, in which call f fails.
JobmonStep(i, m, f) ==
  /\ Fault(f)
  /\ jobmon' = [jobmon EXCEPT ![i] = m]
  /\ UNCHANGED <<build, wall, edit, hvars, cvars, fd_lock_file, path_crontab, g_signal_sigterm,
                 g_signal_sigint, pc, proc, lock_file, crontab, hist>>

\* A process other than the daemon and the monitor takes a step.
ChildStep(i, m, f) == JobmonStep(i, m, f)

IsJobmon(i, l) == i \in DOMAIN jobmon /\ jobmon[i].pc = l

\* pipe(pipe_read), pipe(pipe_write)
JobmonPipe(i) ==
  /\ IsJobmon(i, "pipe")
  /\ \E f \in {"none", "pipe"} :
       JobmonStep(i, IF f = "none" THEN [jobmon[i] EXCEPT !.pc = "fork"]
                     ELSE Exit(jobmon[i], EXIT_FAILURE), f)

\* pid_cmd = fork()
JobmonFork(i) ==
  /\ IsJobmon(i, "fork")
  /\ \E f \in {"none", "fork"} :
       JobmonStep(i, IF f = "none"
                     THEN [jobmon[i] EXCEPT !.pc = "close", !.cmd.pc = "setup"]
                     ELSE Exit(jobmon[i], EXIT_FAILURE), f)

\* crond_fd_write(pipe, data, datasz) begins.
FdWrite(to) == [to |-> to, stage |-> "close0", written |-> 0]

\* close(pipe_read[1]), then crond_fd_write(pipe_write, job->stdin_lines,
\* job->stdin_lines_len) is entered.
JobmonClose(i) ==
  /\ IsJobmon(i, "close")
  /\ \E f \in {"none", "close"} :
       JobmonStep(i, IF f = "none"
                     THEN [jobmon[i] EXCEPT !.pc = "fd_write", !.fd_write = FdWrite("cmd")]
                     ELSE Exit(jobmon[i], EXIT_FAILURE), f)

\* The data crond_fd_write writes, and the process that reads it.
FdData(m) == IF m.fd_write.to = "cmd" THEN m.stdin_lines ELSE m.mail_body[1]

FdReader(m) == IF m.fd_write.to = "cmd" THEN m.cmd ELSE m.mailx

FdPipe(m) == IF m.fd_write.to = "cmd" THEN m.pipe_write ELSE m.pipe_mailx

\* crond_fd_write: close(pipe_write[0]); with nothing to write the loop is
\* not entered.
crond_fd_write_close0(m) ==
  [m EXCEPT !.fd_write.stage = IF Len(FdData(m)) = 0 THEN "close1" ELSE "write"]

FdWriteClose0(i) ==
  /\ IsJobmon(i, "fd_write")
  /\ jobmon[i].fd_write.stage = "close0"
  /\ \E f \in {"none", "close"} :
       JobmonStep(i, IF f = "none" THEN crond_fd_write_close0(jobmon[i])
                     ELSE Exit(jobmon[i], EXIT_FAILURE), f)

\* write() of k bytes of the rest of the data.
Written(m, k) ==
  [m EXCEPT !.fd_write.written = @ + k,
            !.fd_write.stage = IF m.fd_write.written + k = Len(FdData(m))
                               THEN "close1" ELSE "write",
            !.pipe_write = IF m.fd_write.to = "cmd"
                           THEN @ \o SubSeq(FdData(m), m.fd_write.written + 1,
                                            m.fd_write.written + k)
                           ELSE @,
            !.pipe_mailx = IF m.fd_write.to = "mailx"
                           THEN @ \o SubSeq(FdData(m), m.fd_write.written + 1,
                                            m.fd_write.written + k)
                           ELSE @]

\* crond_fd_write: one write().  It blocks while the pipe is full; with no
\* process left that holds the read end the monitor gets SIGPIPE, which
\* terminates it, or (SIGPIPE ignored) EPIPE, and calls exit(EXIT_FAILURE).
FdWriteWrite(i) ==
  /\ IsJobmon(i, "fd_write")
  /\ jobmon[i].fd_write.stage = "write"
  /\ \/ /\ Alive(FdReader(jobmon[i]))
        /\ \E k \in 1..(PipeCapacity - Len(FdPipe(jobmon[i]))) :
             /\ jobmon[i].fd_write.written + k <= Len(FdData(jobmon[i]))
             /\ JobmonStep(i, Written(jobmon[i], k), "none")
     \/ /\ ~Alive(FdReader(jobmon[i]))
        /\ \E m \in {Killed(jobmon[i]), Exit(jobmon[i], EXIT_FAILURE)} :
             JobmonStep(i, m, "none")
     \/ JobmonStep(i, Exit(jobmon[i], EXIT_FAILURE), "write")

\* A faulty variant of crond_fd_write_close1: after the mail body is written
\* the monitor calls exit(EXIT_SUCCESS) without crond_waitpid.
crond_fd_write_close1_nowait(m) ==
  IF m.fd_write.to = "cmd" THEN [m EXCEPT !.pc = "read", !.fd_write = NULL]
  ELSE Exit([m EXCEPT !.fd_write = NULL], EXIT_SUCCESS)

\* crond_fd_write: close(pipe_write[1]) and return, to the read loop or to
\* crond_waitpid(crond, pid_mailx).
crond_fd_write_close1(m) ==
  [m EXCEPT !.pc = IF m.fd_write.to = "cmd" THEN "read" ELSE "waitpid_mailx",
            !.fd_write = NULL]

FdWriteClose1(i) ==
  /\ IsJobmon(i, "fd_write")
  /\ jobmon[i].fd_write.stage = "close1"
  /\ \E f \in {"none", "close"} :
       JobmonStep(i, IF f = "none" THEN crond_fd_write_close1(jobmon[i])
                     ELSE Exit(jobmon[i], EXIT_FAILURE), f)

\* The bytes one read() returns from a pipe that holds s.
ReadCount(s) == IF Len(s) < CRON_READ_BUFFER_SZ THEN Len(s) ELSE CRON_READ_BUFFER_SZ

\* bytes_read > 0: the bytes are appended to mail_body.
Appended(m, n) ==
  [m EXCEPT !.mail_body = <<(IF @ = NULL THEN <<>> ELSE @[1]) \o SubSeq(m.pipe_read, 1, n)>>,
            !.pipe_read = SubSeq(@, n + 1, Len(@))]

MailBodySz(m) == IF m.mail_body = NULL THEN 0 ELSE Len(m.mail_body[1])

\* One turn of the read loop: read() blocks while the pipe is empty and the
\* command holds its write end, and returns 0 once nobody holds it.
JobmonRead(i) ==
  /\ IsJobmon(i, "read")
  /\ \/ /\ jobmon[i].pipe_read # <<>>
        /\ \E f \in {"none", "realloc"} :
             JobmonStep(i, IF f = "none"
                              /\ si_add_size_t(MailBodySz(jobmon[i]),
                                               ReadCount(jobmon[i].pipe_read)).wraps = 0
                           THEN Appended(jobmon[i], ReadCount(jobmon[i].pipe_read))
                           ELSE Exit(jobmon[i], EXIT_FAILURE), f)
     \/ /\ jobmon[i].pipe_read = <<>>
        /\ ~Alive(jobmon[i].cmd)
        /\ JobmonStep(i, [jobmon[i] EXCEPT !.pc = "close_read0"], "none")
     \/ JobmonStep(i, Exit(jobmon[i], EXIT_FAILURE), "read")

\* close(pipe_read[0])
JobmonCloseRead(i) ==
  /\ IsJobmon(i, "close_read0")
  /\ \E f \in {"none", "close"} :
       JobmonStep(i, IF f = "none" THEN [jobmon[i] EXCEPT !.pc = "waitpid_cmd"]
                     ELSE Exit(jobmon[i], EXIT_FAILURE), f)

\* crond_waitpid(crond, pid_cmd) returns once the command has terminated;
\* without output the monitor then calls exit(EXIT_SUCCESS).
Waited(m) ==
  IF m.mail_body = NULL
  THEN Exit([m EXCEPT !.cmd.pc = "reaped"], EXIT_SUCCESS)
  ELSE [m EXCEPT !.cmd.pc = "reaped", !.pc = "mailx"]

JobmonWaitpid(i) ==
  /\ IsJobmon(i, "waitpid_cmd")
  /\ \/ /\ jobmon[i].cmd.pc = "zombie"
        /\ JobmonStep(i, Waited(jobmon[i]), "none")
     \/ JobmonStep(i, Exit(jobmon[i], EXIT_FAILURE), "waitpid")

\* crond_mailx: pipe(pipe_write), pid_mailx = fork(), crond_fd_write is
\* entered with the mail body.
JobmonMailx(i) ==
  /\ IsJobmon(i, "mailx")
  /\ \E f \in {"none", "pipe", "fork"} :
       JobmonStep(i, IF f = "none"
                     THEN [jobmon[i] EXCEPT !.pc = "fd_write", !.mailx.pc = "setup",
                                            !.fd_write = FdWrite("mailx")]
                     ELSE Exit(jobmon[i], EXIT_FAILURE), f)

\* crond_waitpid(crond, pid_mailx), then exit(EXIT_SUCCESS).
JobmonWaitpidMailx(i) ==
  /\ IsJobmon(i, "waitpid_mailx")
  /\ \/ /\ jobmon[i].mailx.pc = "zombie"
        /\ JobmonStep(i, Exit([jobmon[i] EXCEPT !.mailx.pc = "reaped"], EXIT_SUCCESS),
                      "none")
     \/ JobmonStep(i, Exit(jobmon[i], EXIT_FAILURE), "waitpid")

\* The command process: dup2() of the pipe ends, close() of the four
\* descriptors, execle() of the shell, which runs one of Programs; on a
\* failure exit(EXIT_FAILURE).
CmdExec(i) ==
  /\ i \in DOMAIN jobmon /\ jobmon[i].cmd.pc = "setup"
  /\ \/ \E prog \in Programs :
          ChildStep(i, [jobmon[i] EXCEPT !.cmd.pc = "running",
                                         !.cmd.reads = prog.reads,
                                         !.cmd.out_first = prog.out_first,
                                         !.cmd.out = prog.out], "none")
     \/ \E f \in {"dup2", "close", "execle"} :
          ChildStep(i, [jobmon[i] EXCEPT !.cmd.pc = "zombie",
                                         !.cmd.status = <<EXIT_FAILURE>>], f)

\* The command writes a byte of its output; without a process that holds
\* the read end it is terminated by SIGPIPE (a zombie without exit status).
CmdWrite(i) ==
  /\ i \in DOMAIN jobmon /\ jobmon[i].cmd.pc = "running"
  /\ jobmon[i].cmd.done < Len(jobmon[i].cmd.out)
  /\ IF OutputReaderOpen(jobmon[i])
     THEN /\ Len(jobmon[i].pipe_read) < PipeCapacity
          /\ ChildStep(i, [jobmon[i] EXCEPT
                             !.pipe_read = Append(@, jobmon[i].cmd.out[jobmon[i].cmd.done + 1]),
                             !.cmd.done = @ + 1], "none")
     ELSE ChildStep(i, [jobmon[i] EXCEPT !.cmd.pc = "zombie"], "none")

\* The command reads what its stdin holds.
CmdRead(i) ==
  /\ i \in DOMAIN jobmon /\ jobmon[i].cmd.pc = "running"
  /\ jobmon[i].cmd.reads
  /\ jobmon[i].cmd.out_first => jobmon[i].cmd.done = Len(jobmon[i].cmd.out)
  /\ jobmon[i].pipe_write # <<>>
  /\ ChildStep(i, [jobmon[i] EXCEPT !.pipe_write = <<>>], "none")

\* The command has written its output and, if it reads its stdin, has read
\* it to the end: it exits.
CmdExit(i) ==
  /\ i \in DOMAIN jobmon /\ jobmon[i].cmd.pc = "running"
  /\ jobmon[i].cmd.done = Len(jobmon[i].cmd.out)
  /\ jobmon[i].cmd.reads => (jobmon[i].pipe_write = <<>> /\ ~StdinWriterOpen(jobmon[i]))
  /\ ChildStep(i, [jobmon[i] EXCEPT !.cmd.pc = "zombie",
                                    !.cmd.status = <<EXIT_SUCCESS>>,
                                    !.pipe_write = <<>>], "none")

\* The mailx process: dup2(), close(), execlp("mailx", ...); on a failure
\* exit(EXIT_FAILURE).  got is the mail body mailx has read.
MailxExec(i) ==
  /\ i \in DOMAIN jobmon /\ jobmon[i].mailx.pc = "setup"
  /\ \E f \in {"none", "dup2", "close", "execlp"} :
       ChildStep(i, IF f = "none"
                    THEN [jobmon[i] EXCEPT !.mailx.pc = "running"]
                    ELSE [jobmon[i] EXCEPT !.mailx.pc = "zombie",
                                           !.mailx.status = <<EXIT_FAILURE>>], f)

MailxRead(i) ==
  /\ i \in DOMAIN jobmon /\ jobmon[i].mailx.pc = "running"
  /\ jobmon[i].pipe_mailx # <<>>
  /\ ChildStep(i, [jobmon[i] EXCEPT !.mailx.got = @ \o jobmon[i].pipe_mailx,
                                    !.pipe_mailx = <<>>], "none")

\* mailx has read its stdin to the end, sends the mail and exits.
MailxExit(i) ==
  /\ i \in DOMAIN jobmon /\ jobmon[i].mailx.pc = "running"
  /\ jobmon[i].pipe_mailx = <<>> /\ ~MailxWriterOpen(jobmon[i])
  /\ ChildStep(i, [jobmon[i] EXCEPT !.mailx.pc = "zombie",
                                    !.mailx.status = <<EXIT_SUCCESS>>], "none")

\* A step of monitor i or of one of its children.
RunJobmon(i) ==
  \/ JobmonPipe(i)
  \/ JobmonFork(i)
  \/ JobmonClose(i)
  \/ FdWriteClose0(i)
  \/ FdWriteWrite(i)
  \/ FdWriteClose1(i)
  \/ JobmonRead(i)
  \/ JobmonCloseRead(i)
  \/ JobmonWaitpid(i)
  \/ JobmonMailx(i)
  \/ JobmonWaitpidMailx(i)
  \/ CmdExec(i)
  \/ CmdWrite(i)
  \/ CmdRead(i)
  \/ CmdExit(i)
  \/ MailxExec(i)
  \/ MailxRead(i)
  \/ MailxExit(i)

(***************************************************************************)
(* crond_job_list_run with the monitors it forks followed.                 *)
(***************************************************************************)
\* The results crond_job_should_run can give for the jobs of daemon c (see
\* JobListRun).
ShouldRunResults(c) ==
  IF job_list[c] = <<>> \/ tm[c] # NULL
  THEN { [k \in 1..Len(job_list[c]) |-> crond_job_should_run(tm[c][1], job_list[c][k])] }
  ELSE [1..Len(job_list[c]) -> BOOLEAN]

\* The loop of crond_job_list_run from job i on: crond_job_run for each job
\* r selects.  fork() fails for the jobs in failing, and when the daemon has
\* MaxJobmon children.
\* A faulty variant of Forks, which goes through the store from its end.
RECURSIVE ForksBackwards(_, _, _, _, _)
ForksBackwards(children, jobs, r, i, failing) ==
  IF i > Len(jobs) THEN children
  ELSE IF ~r[Len(jobs) + 1 - i] THEN ForksBackwards(children, jobs, r, i + 1, failing)
  ELSE ForksBackwards(crond_job_run(children, jobs[Len(jobs) + 1 - i],
                                    IF (Len(jobs) + 1 - i) \in failing
                                       \/ Len(children) >= MaxJobmon
                                    THEN "fork" ELSE "none"),
                      jobs, r, i + 1, failing)

RECURSIVE Forks(_, _, _, _, _)
Forks(children, jobs, r, i, failing) ==
  IF i > Len(jobs) THEN children
  ELSE IF ~r[i] THEN Forks(children, jobs, r, i + 1, failing)
  ELSE Forks(crond_job_run(children, jobs[i],
                           IF i \in failing \/ Len(children) >= MaxJobmon
                           THEN "fork" ELSE "none"),
             jobs, r, i + 1, failing)

Selected(r) == { k \in DOMAIN r : r[k] }

JobListRunFork(c) ==
  /\ pc[c] = "job_list_run"
  /\ \/ \E r \in ShouldRunResults(c) : \E failing \in SUBSET Selected(r) :
          /\ crond_job_list_run(c, r)
          /\ jobmon' = Forks(jobmon, job_list[c], r, 1, failing)
          /\ hist' = [hist EXCEPT ![c].failed =
                        IF Len(jobmon') < Len(jobmon) + Cardinality(Selected(r))
                        THEN "fork" ELSE @]
     \/ /\ job_list[c] # <<>> /\ tm[c] = NULL
        /\ Goto(c, "crashed")
        /\ UNCHANGED <<should_run, jobmon, hist>>
  /\ UNCHANGED <<build, wall, edit, hvars, status_code, job_list, tm, errx, mtime_crontab,
                 fd_lock_file, path_crontab, g_signal_sigterm, g_signal_sigint,
                 proc, lock_file, crontab, faults>>

\* Monitor i, with the processes it has started, runs to its end: it calls
\* exit(), or is terminated by SIGPIPE (see RunJobmon for its steps).
JobmonTerminates(i) ==
  /\ i \in DOMAIN jobmon /\ Running(jobmon[i])
  /\ \E m \in {Exit(jobmon[i], EXIT_SUCCESS), Exit(jobmon[i], EXIT_FAILURE),
                Killed(jobmon[i])} :
       JobmonStep(i, m, "none")

(***************************************************************************)
(* The environment of the daemons.                                         *)
(***************************************************************************)
\* A faulty variant of crond_signal_handler, which takes SIGHUP for a
\* request to stop.
crond_signal_handler_hup(signum, flags) ==
  IF signum = "SIGTERM" \/ signum = "SIGHUP" THEN <<1, flags[2]>>
  ELSE IF signum = "SIGINT" THEN <<flags[1], 1>>
  ELSE flags

\* crond_signal_handler(signum) on the flags <<g_signal_sigterm, g_signal_sigint>>.
crond_signal_handler(signum, flags) ==
  IF signum = "SIGTERM" THEN <<1, flags[2]>>
  ELSE IF signum = "SIGINT" THEN <<flags[1], 1>>
  ELSE flags

\* A signal reaches a daemon whose handlers are installed; it ends a sleep().
Handled(c, flags) ==
  /\ g_signal_sigterm' = [g_signal_sigterm EXCEPT ![c] = flags[1]]
  /\ g_signal_sigint' = [g_signal_sigint EXCEPT ![c] = flags[2]]

\* The schedule file is not the one whose timestamp daemon c has stored.
Unobserved(c) ==
  IF crontab.exists THEN crontab.mtime # mtime_crontab[c] ELSE mtime_crontab[c] # 0

Deliver(c, signum) ==
  /\ proc[c].handlers
  /\ pc[c] \notin {"start", "done", "crashed"}
  /\ Handled(c, crond_signal_handler(signum, <<g_signal_sigterm[c], g_signal_sigint[c]>>))
  /\ pc' = [pc EXCEPT ![c] = IF @ = "sleeping" THEN "reap" ELSE @]
  /\ hist' = [hist EXCEPT ![c].sighup =
                IF signum = "SIGHUP" /\ pc[c] = "sleeping" /\ Unobserved(c)
                THEN "stale" ELSE @]
  /\ UNCHANGED <<build, wall, edit, jobmon, hvars, cvars, fd_lock_file, path_crontab, proc, lock_file,
                 crontab, faults>>

Signal(c) == \E signum \in {"SIGHUP", "SIGINT", "SIGTERM"} : Deliver(c, signum)

\* The schedule file is replaced (rename into place) by one of texts, or
\* removed.
EditTo(texts) ==
  /\ crontab.mtime <= MaxEdits
  /\ \/ \E t \in texts :
          crontab' = [exists |-> TRUE, mtime |-> crontab.mtime + 1, text |-> t]
     \/ /\ crontab.exists
        /\ crontab' = [exists |-> FALSE, mtime |-> crontab.mtime + 1, text |-> <<>>]
  /\ UNCHANGED <<build, wall, edit, jobmon, hvars, cvars, fd_lock_file, path_crontab, g_signal_sigterm,
                 g_signal_sigint, pc, proc, lock_file, faults, hist>>

EditCrontab == EditTo(CrontabTexts)

ReplaceCrontab == EditTo(FileTexts)

\* A step of daemon c after its start.
Run(c) ==
  \/ LockFileCreate(c)
  \/ While(c)
  \/ Reparse(c)
  \/ GettimeBefore(c)
  \/ JobListRun(c)
  \/ GettimeAfter(c)
  \/ ShouldSleep(c)
  \/ Sleep(c)
  \/ Wake(c)
  \/ Reap(c)
  \/ Cleanup(c)

(***************************************************************************)
(* The parser harness (as test/fuzz-driver.c): struct crond contexts       *)
(* zeroed by memset, crond_crontab_parse_line called on each.              *)
(***************************************************************************)
NoSi == [op |-> "none", a |-> 0, b |-> 0, result |-> 0, wraps |-> 0]

InitCrond ==
  /\ injected = <<>>
  /\ si = NoSi
  /\ should_run = [c \in Ctx |-> <<>>]
  /\ status_code = [c \in Ctx |-> ZeroCrond.status_code]
  /\ job_list = [c \in Ctx |-> ZeroCrond.job_list]
  /\ tm = [c \in Ctx |-> ZeroCrond.tm]
  /\ errx = [c \in Ctx |-> ZeroCrond.errx]
  /\ mtime_crontab = [c \in Ctx |-> ZeroCrond.mtime_crontab]
  /\ InitDaemons

InitParse ==
  /\ InitCrond
  /\ build \in Builds
  /\ crontab = NoCrontab
  /\ \E p \in LinePairs : line = [c \in Ctx |-> IF c = 1 THEN p[1] ELSE p[2]]

InitMatch ==
  /\ InitCrond
  /\ build \in Builds
  /\ crontab = NoCrontab
  /\ \E l \in AllLines : line = [c \in Ctx |-> l]

\* One round: crond_crontab_parse_line(&crond[c], line[c]) on every context
\* c, with the same allocation (if any) failing; r[c] is context c afterwards.
HarnessParsed(r, fail) ==
  /\ injected' = Append(injected, fail)
  /\ status_code' = [c \in Ctx |-> r[c].status_code]
  /\ errx' = [c \in Ctx |-> r[c].errx]
  /\ job_list' = [c \in Ctx |-> r[c].job_list]
  /\ UNCHANGED <<build, wall, edit, jobmon, line, si, should_run, tm, mtime_crontab, dvars>>

HarnessParse(fails) ==
  /\ Len(injected) < MaxCalls
  /\ \E fail \in fails :
       \E r \in {[c \in Ctx |-> crond_crontab_parse_line(CtxOf(c), line[c], fail)]} :
         HarnessParsed(r, fail)

\* crond_job_should_run on every job of every context at a drawn time, once
\* the rounds are done.
HarnessMatch ==
  /\ Len(injected) = MaxCalls
  /\ \A c \in Ctx : should_run[c] = <<>>
  /\ \E t \in TmSamples :
       /\ tm' = [c \in Ctx |-> <<t>>]
       /\ should_run' = [c \in Ctx |->
            <<[k \in 1..Len(job_list[c]) |-> crond_job_should_run(t, job_list[c][k])]>>]
  /\ UNCHANGED <<build, wall, edit, jobmon, line, injected, si, status_code, job_list, errx,
                 mtime_crontab, dvars>>

(***************************************************************************)
(* The arithmetic harness (as test_unit_si_op_size of test/test.c): one of *)
(* the two functions is called on a pair of operands.  The operands are    *)
(* the ends of the range of size_t, its middle, and the values around the  *)
(* square root of 2^SizeBits, where the products start to wrap.            *)
(***************************************************************************)
SqrtSize == 2 ^ (SizeBits \div 2)

SizeSamples ==
  {0, 1, 2, 3, SqrtSize - 1, SqrtSize, SqrtSize + 1,
   SIZE_MAX \div 2, SIZE_MAX \div 2 + 1, SIZE_MAX - 1, SIZE_MAX}

InitSize ==
  /\ InitDaemons
  /\ injected = <<>>
  /\ should_run = [c \in Ctx |-> <<>>]
  /\ status_code = [c \in Ctx |-> ZeroCrond.status_code]
  /\ job_list = [c \in Ctx |-> ZeroCrond.job_list]
  /\ tm = [c \in Ctx |-> ZeroCrond.tm]
  /\ errx = [c \in Ctx |-> ZeroCrond.errx]
  /\ mtime_crontab = [c \in Ctx |-> ZeroCrond.mtime_crontab]
  /\ build = CHOOSE b \in Builds : TRUE
  /\ crontab = NoCrontab
  /\ line = [c \in Ctx |-> <<>>]
  /\ \E a, b \in SizeSamples : si = [NoSi EXCEPT !.a = a, !.b = b]

\* rc = si_op_size(a, b, &result), r being what the function does.
SiCalled(op, r) ==
  /\ si.op = "none"
  /\ si' = [si EXCEPT !.op = op, !.result = r.result, !.wraps = r.wraps]
  /\ UNCHANGED <<build, wall, edit, jobmon, line, injected, cvars, dvars>>

SiAdd == SiCalled("si_add_size_t", si_add_size_t(si.a, si.b))

SiMul == SiCalled("si_mul_size_t", si_mul_size_t(si.a, si.b))

NextSize == SiAdd \/ SiMul

SpecSize == InitSize /\ [][NextSize]_vars

NextParse == HarnessParse(AllocFailures)

NextMatch == HarnessParse({"none"}) \/ HarnessMatch

SpecParse == InitParse /\ [][NextParse]_vars

SpecMatch == InitMatch /\ [][NextMatch]_vars

(***************************************************************************)
(* The daemons, each started once, in any order and interleaving, beside a *)
(* schedule file that stays as it is.  No access of these runs is out of   *)
(* bounds (see CrontabTexts and DaemonTimes), so that build, which is not  *)
(* consulted, is any one of Builds.                                        *)
(***************************************************************************)
Init ==
  /\ InitCrond
  /\ build = CHOOSE b \in Builds : TRUE
  /\ crontab \in InitialCrontabs
  /\ line = [c \in Ctx |-> <<>>]

Next == \E c \in Ctx : Main(c) \/ Run(c) \/ Signal(c)

Spec == Init /\ [][Next]_vars

(***************************************************************************)
(* One daemon beside a schedule file that is edited.  The process is       *)
(* scheduled and its sleep() ends: weak fairness of its steps.             *)
(***************************************************************************)
NextOne == Main(1) \/ Run(1) \/ Signal(1) \/ EditCrontab

SpecOne == Init /\ [][NextOne]_vars

FairSpecOne == SpecOne /\ WF_vars(Run(1))

(***************************************************************************)
(* One daemon beside any of InitialFiles, replaced by any of FileTexts.    *)
(***************************************************************************)
InitFile ==
  /\ InitCrond
  /\ build = CHOOSE b \in Builds : TRUE
  /\ crontab \in InitialFiles
  /\ line = [c \in Ctx |-> <<>>]

NextFile == Main(1) \/ Run(1) \/ Signal(1) \/ ReplaceCrontab

SpecFile == InitFile /\ [][NextFile]_vars

FairSpecFile == SpecFile /\ WF_vars(Run(1))

(***************************************************************************)
(* crontab_file_set: runs of the crontab utility (crontab file, or crontab *)
(* with the new schedule on its standard input) replace the schedule file. *)
(* Their calls fail only as the files make them fail.                      *)
(***************************************************************************)
\* Capacity of the buffer of a FILE: fwrite() hands the buffer to write()
\* when it is full, and fclose() hands on what remains.
BufSz == 12

\* The new schedule that each run of the utility is given.
UtilInput ==
  << Line5(Num(0), Num(0), Num(1), Num(1), Num(0), Cmd) \o NL \o
     Line5(Num(0), Num(0), Num(1), Num(1), Num(0), <<"d">>) \o NL,
     Line5(Num(0), Num(0), Num(1), Num(1), Num(0), <<"e">>) \o NL >>

\* write() of piece at offset off of a file with text; the bytes between the
\* end of the file and off read as zero bytes.
Pwrite(text, off, piece) ==
  [k \in 1..(IF Len(text) > off + Len(piece) THEN Len(text) ELSE off + Len(piece)) |->
     IF k > off /\ k <= off + Len(piece) THEN piece[k - off]
     ELSE IF k <= Len(text) THEN text[k] ELSE NUL]

\* The file that crontab::path_crontab names, old being the one it named
\* before any rename().
Linked(e, old) ==
  IF e.path = 0 THEN old
  ELSE [exists |-> TRUE, mtime |-> e.ino[e.path].mtime, text |-> e.ino[e.path].text]

\* fp_out = fopen(crontab->path_crontab_tmp, "w"): the file of that name is
\* truncated, or created when there is none.
crontab_fopen_tmp(e, u) ==
  IF e.tmp = 0
  THEN [e EXCEPT !.ino = Append(@, [text |-> <<>>, mtime |-> e.clock + 1]),
                 !.tmp = Len(e.ino) + 1, !.clock = @ + 1,
                 !.util[u].pc = "copy", !.util[u].fd = Len(e.ino) + 1]
  ELSE [e EXCEPT !.ino[e.tmp] = [text |-> <<>>, mtime |-> e.clock + 1],
                 !.clock = @ + 1,
                 !.util[u].pc = "copy", !.util[u].fd = e.tmp]

\* write() of the next n bytes of the input of run u to its fp_out.
crontab_write(e, u, n) ==
  IF n = 0 THEN e
  ELSE [e EXCEPT !.ino[e.util[u].fd] =
                   [text |-> Pwrite(@.text, e.util[u].off,
                                    SubSeq(UtilInput[u], e.util[u].off + 1,
                                           e.util[u].off + n)),
                    mtime |-> e.clock + 1],
                 !.clock = @ + 1, !.util[u].off = @ + n]

\* crontab_rename_file(crontab, path_crontab_tmp, path_crontab): rename()
\* fails with ENOENT when another run has renamed the temporary file.
crontab_rename_file(e, u) ==
  IF e.tmp = 0
  THEN [e EXCEPT !.util[u].pc = "done", !.util[u].status_code = EXIT_FAILURE]
  ELSE [e EXCEPT !.util[u].pc = "done", !.path = e.tmp, !.tmp = 0]

\* A step of a run of the utility that leaves the files as in e.
UtilStep(e) ==
  /\ edit' = e
  /\ crontab' = Linked(e, crontab)
  /\ UNCHANGED <<build, wall, jobmon, hvars, cvars, fd_lock_file, path_crontab,
                 g_signal_sigterm, g_signal_sigint, pc, proc, lock_file, faults, hist>>

\* The bytes of its input that run u has not yet written.
Unwritten(u) == Len(UtilInput[u]) - edit.util[u].off

UtilFopen(u) ==
  /\ edit.util[u].pc = "start"
  /\ UtilStep(crontab_fopen_tmp(edit, u))

\* crontab_copy_file: fwrite() has filled the buffer.
UtilCopy(u) ==
  /\ edit.util[u].pc = "copy" /\ Unwritten(u) > BufSz
  /\ UtilStep(crontab_write(edit, u, BufSz))

\* fclose(fp_out), after the end of the input.
UtilFclose(u) ==
  /\ edit.util[u].pc = "copy" /\ Unwritten(u) <= BufSz
  /\ UtilStep([crontab_write(edit, u, Unwritten(u)) EXCEPT !.util[u].pc = "rename"])

UtilRename(u) ==
  /\ edit.util[u].pc = "rename"
  /\ UtilStep(crontab_rename_file(edit, u))

crontab_file_set(u) == UtilFopen(u) \/ UtilCopy(u) \/ UtilFclose(u) \/ UtilRename(u)

(***************************************************************************)
(* One daemon beside the runs of the crontab utility.                      *)
(***************************************************************************)
NextEdit == Main(1) \/ Run(1) \/ Signal(1) \/ \E u \in 1..NumUtil : crontab_file_set(u)

SpecEdit == Init /\ [][NextEdit]_vars

(***************************************************************************)
(* One daemon and the monitors it forks, beside a schedule file of three   *)
(* jobs: the first and the last are selected in the same minute.           *)
(***************************************************************************)
JobsText ==
  Line5(Num(0), Num(0), Num(1), Num(1), Num(0), Cmd \o <<"%", "a">>) \o NL
  \o Line5(Num(LenMinute - 1), Num(0), Num(1), Num(1), Num(0), <<"d">>) \o NL
  \o Line5(Num(0), Num(0), Num(1), Num(1), Num(0), <<"e">>) \o NL

InitJobs ==
  /\ InitCrond
  /\ build = CHOOSE b \in Builds : TRUE
  /\ crontab = [exists |-> TRUE, mtime |-> 1, text |-> JobsText]
  /\ line = [c \in Ctx |-> <<>>]

RunJobs(c) ==
  \/ LockFileCreate(c)
  \/ While(c)
  \/ Reparse(c)
  \/ GettimeBefore(c)
  \/ JobListRunFork(c)
  \/ GettimeAfter(c)
  \/ ShouldSleep(c)
  \/ Sleep(c)
  \/ Wake(c)
  \/ Reap(c)
  \/ Cleanup(c)

\* One daemon whose clock, read after the jobs were launched, shows the first
\* and the last seconds of a minute, the leap second included (tm_sec is in
\* 0..60).
SecSamples == {0, 1, 59, 60}

SecTimes ==
  { [t EXCEPT !.tm_sec = s] : t \in { u \in DaemonTimes : u.tm_min = 0 }, s \in SecSamples }

RunSec(c) ==
  \/ LockFileCreate(c)
  \/ While(c)
  \/ Reparse(c)
  \/ GettimeBefore(c)
  \/ JobListRun(c)
  \/ GettimeOf(c, "gettime_again", "should_sleep", SecTimes)
  \/ ShouldSleep(c)
  \/ Sleep(c)
  \/ Wake(c)
  \/ Reap(c)
  \/ Cleanup(c)

NextSec == Main(1) \/ RunSec(1) \/ Signal(1)

SpecSec == Init /\ [][NextSec]_vars

(***************************************************************************)
(* One daemon under a wall clock.  The daemon is started at the beginning  *)
(* of minute 0 of hour 0; its steps take no time but sleep(), which ends   *)
(* when the requested seconds are over or when a handled signal arrives.   *)
(***************************************************************************)
\* The clock is followed for MaxClock seconds.
MaxClock == 120

\* What clock_gettime and localtime give at now seconds.
ClockTime(now) ==
  [(CHOOSE t \in DaemonTimes : t.tm_min = 0)
     EXCEPT !.tm_sec = now % 60, !.tm_min = (now \div 60) % 60]

\* The jobs for which the step calls crond_job_run.
Launched(c) ==
  IF pc[c] = "job_list_run" /\ pc'[c] = "gettime_again"
  THEN { k \in DOMAIN should_run'[c][1] : should_run'[c][1][k] }
  ELSE {}

JobListRunClock(c) ==
  /\ JobListRunOf(c)
  /\ wall' = [wall EXCEPT !.launched =
                @ \cup { <<k, wall.now \div 60>> : k \in Launched(c) }]

SleepClock(c) ==
  /\ SleepOf(c)
  /\ wall' = [wall EXCEPT !.wake = wall.now + proc[c].sleep_sec]

\* The sleep() has lasted all but its last second.
Elapse(c) ==
  /\ pc[c] = "sleeping"
  /\ wall.now < wall.wake - 1
  /\ wall' = [wall EXCEPT !.now = wall.wake - 1]
  /\ UNCHANGED <<build, edit, jobmon, hvars, cvars, dvars>>

WakeClock(c) ==
  /\ WakeOf(c)
  /\ wall.wake <= MaxClock
  /\ wall' = [wall EXCEPT !.now = wall.wake]

RunClock(c) ==
  \/ LockFileCreate(c)
  \/ While(c)
  \/ Reparse(c)
  \/ GettimeOf(c, "gettime", "job_list_run", {ClockTime(wall.now)})
  \/ JobListRunClock(c)
  \/ GettimeOf(c, "gettime_again", "should_sleep", {ClockTime(wall.now)})
  \/ ShouldSleep(c)
  \/ SleepClock(c)
  \/ WakeClock(c)
  \/ Reap(c)
  \/ Cleanup(c)

NextClock == Main(1) \/ RunClock(1) \/ Elapse(1) \/ Signal(1)

SpecClock == Init /\ [][NextClock]_vars

\* One daemon beside one of InitialCrontabs, and the monitors it forks.  The
\* process is scheduled and its sleep() ends: weak fairness of its steps.
NextReap ==
  Main(1) \/ RunJobs(1) \/ Signal(1) \/ \E i \in 1..MaxJobmon : JobmonTerminates(i)

SpecReap == Init /\ [][NextReap]_vars

FairSpecReap == SpecReap /\ WF_vars(RunJobs(1))

NextJobs == Main(1) \/ RunJobs(1) \/ Signal(1) \/ \E i \in 1..MaxJobmon : JobmonTerminates(i)

SpecJobs == InitJobs /\ [][NextJobs]_vars

(***************************************************************************)
(* One call of crond_job_run, on a job without, with a short and with a    *)
(* long stdin section, and the processes it starts.                        *)
(***************************************************************************)
JobmonLines ==
  { Line5(Num(0), Num(0), Num(1), Num(1), Num(0), Cmd \o t) :
      t \in {<<>>, <<"%", "a">>, <<"%", "a", "%", "b">>} }

JobmonJobs == { crond_crontab_parse_line(ZeroCrond, l, "none").job_list[1] : l \in JobmonLines }

JobRunCall ==
  /\ jobmon = <<>>
  /\ faults = 0
  /\ \E job \in JobmonJobs : \E f \in {"none", "fork"} :
       /\ Fault(f)
       /\ jobmon' = crond_job_run(jobmon, job, f)
  /\ UNCHANGED <<build, wall, edit, hvars, cvars, fd_lock_file, path_crontab, g_signal_sigterm,
                 g_signal_sigint, pc, proc, lock_file, crontab, hist>>

NextJobmon == JobRunCall \/ \E i \in 1..MaxJobmon : RunJobmon(i)

SpecJobmon == Init /\ [][NextJobmon]_vars

\* The monitor and its children are scheduled: weak fairness of the steps of
\* each monitor with its children.
FairSpecJobmon == SpecJobmon /\ \A i \in 1..MaxJobmon : WF_vars(RunJobmon(i))

(***************************************************************************)
(* Properties.                                                             *)
(***************************************************************************)
\* The bit-set of time field k (1..5) of a job: the enabled indices.
FieldSet(job, k) ==
  { i \in 0..(FieldLen(k) - 1) : (FieldOff(k) + i) \in job.bools }

\* All rounds made, none with an injected failure.
AllCallsClean ==
  /\ Len(injected) = MaxCalls
  /\ \A n \in 1..MaxCalls : injected[n] = "none"

\* C1: at most one daemon is inside the main loop; a daemon whose open() of
\* the lock file met the file (EEXIST) has recorded the failure, never enters
\* the loop (no reparse, no job launch), returns non-zero, does not unlink
\* the lock file, and none of its steps changes the lock file or the
\* schedule file.
C1_SingleInstance ==
  [][/\ \A c, d \in Ctx : (pc'[c] \in LoopBody /\ pc'[d] \in LoopBody) => c = d
     /\ \A c \in Ctx : hist'[c].eexist =>
          /\ errx'[c]
          /\ status_code'[c] # EXIT_SUCCESS
          /\ ~hist'[c].entered
          /\ pc'[c] \notin LoopBody
          /\ mtime_crontab'[c] = 0 /\ job_list'[c] = <<>>
          /\ should_run'[c] = <<>>
          /\ hist'[c].removed = "no"
          /\ (pc'[c] = "done" => proc'[c].exit_status = <<EXIT_FAILURE>>)
          /\ (pc'[c] # pc[c] => lock_file' = lock_file /\ crontab' = crontab)]_vars

C1_Witness ==
  \E c, d \in Ctx :
    /\ pc[c] = "sleeping" /\ should_run[c] # <<>> /\ lock_file = c
    /\ hist[d].eexist /\ pc[d] = "done"

\* C2: a daemon that created the lock file and has returned has closed the
\* descriptor and called remove() on the lock file; if remove() succeeded
\* the file it created is gone, and an open() of the lock file by another
\* daemon that then fails for no other reason creates it.
C2_LockRelease ==
  [][\A c \in Ctx : (pc'[c] = "done" /\ hist'[c].created) =>
       /\ hist'[c].closed
       /\ hist'[c].removed # "no"
       /\ hist'[c].removed = "ok" =>
            /\ lock_file' # c
            /\ \A d \in Ctx :
                 (/\ pc[c] = "done" /\ lock_file = 0
                  /\ pc[d] = "lock_file_create" /\ pc'[d] = "while"
                  /\ faults' = faults /\ path_crontab[d] # NULL)
                 => hist'[d].created /\ lock_file' = d]_vars

\* C3: once SIGTERM or SIGINT has reached a daemon inside its main loop, the
\* daemon eventually has returned with the store freed and the lock file
\* removed, and it begins at most one sleep after the signal.  Stated for
\* the runs in which no system call fails.
C3_ShutdownLiveness ==
  /\ \A c \in Ctx :
       (InMainLoop(c) /\ (g_signal_sigterm[c] = 1 \/ g_signal_sigint[c] = 1)
        /\ faults = 0)
       ~> (\/ pc[c] = "done" /\ job_list[c] = <<>> /\ lock_file = 0
           \/ faults > 0)
  /\ [](\A c \in Ctx : hist[c].sleeps <= 1)

\* C4: crond_main returns 0 exactly when crond_errx_noexit has recorded no
\* error in the run, whether or not a signal stopped the daemon.
C4_ExitStatus ==
  \A c \in Ctx : pc[c] = "done" =>
    /\ proc[c].exit_status \in {<<EXIT_SUCCESS>>, <<EXIT_FAILURE>>}
    /\ proc[c].exit_status = <<EXIT_SUCCESS>> <=> ~errx[c]

C4_Witness ==
  \E c \in Ctx :
    /\ pc[c] = "done" /\ hist[c].entered /\ g_signal_sigterm[c] = 1
    /\ errx[c] /\ proc[c].exit_status = <<EXIT_FAILURE>>

\* Two jobs agree in the five bit-sets, the command and the stdin payload.
SameJob(j1, j2) ==
  /\ \A k \in 1..5 : FieldSet(j1, k) = FieldSet(j2, k)
  /\ j1.command = j2.command
  /\ j1.stdin_lines = j2.stdin_lines
  /\ j1.stdin_lines_len = j2.stdin_lines_len

\* C5: a job is selected iff each of its five bit-sets holds the index of
\* the current time: tm_min, tm_hour, tm_mday - 1, tm_mon - 1, tm_wday.
C5_Matcher ==
  \A c \in Ctx : should_run[c] # <<>> =>
    \A n \in 1..Len(job_list[c]) :
      should_run[c][1][n] <=>
        /\ tm[c][1].tm_min      \in FieldSet(job_list[c][n], 1)
        /\ tm[c][1].tm_hour     \in FieldSet(job_list[c][n], 2)
        /\ tm[c][1].tm_mday - 1 \in FieldSet(job_list[c][n], 3)
        /\ tm[c][1].tm_mon - 1  \in FieldSet(job_list[c][n], 4)
        /\ tm[c][1].tm_wday     \in FieldSet(job_list[c][n], 5)

\* C6: a job parsed from five single values (m, h, d, mo, w) is selected at
\* the time whose fields equal them and at no time differing in a field.
C6_MatchDefinite ==
  \A c \in Ctx : \A m \in SingleSamples(1), h \in SingleSamples(2),
                    d \in SingleSamples(3), mo \in SingleSamples(4),
                    w \in SingleSamples(5) :
    (/\ line[c] = Line5(Num(m), Num(h), Num(d), Num(mo), Num(w), Cmd)
     /\ should_run[c] # <<>>)
    => \A n \in 1..Len(job_list[c]) :
         should_run[c][1][n] <=>
           /\ tm[c][1].tm_min = m
           /\ tm[c][1].tm_hour = h
           /\ tm[c][1].tm_mday = d
           /\ tm[c][1].tm_mon = mo
           /\ tm[c][1].tm_wday = w

\* C7: a call of crond_crontab_parse_line either appends exactly one job,
\* whose five bit-sets are all non-empty, or leaves the store as it was.
C7_ParseTotal ==
  [][\A c \in Ctx :
       \/ job_list'[c] = job_list[c]
       \/ /\ Len(job_list'[c]) = Len(job_list[c]) + 1
          /\ SubSeq(job_list'[c], 1, Len(job_list[c])) = job_list[c]
          /\ \A k \in 1..5 : FieldSet(job_list'[c][Len(job_list'[c])], k) # {}]_vars

C7_Witness ==
  /\ Len(injected) = MaxCalls
  /\ injected[1] = "none"
  /\ injected[MaxCalls] = "realloc"
  /\ line[1] = LineWith(1, Range(5, 60), Cmd)
  /\ line[NumCtx] = LineWith(1, Range(60, 5), Cmd)
  /\ Len(job_list[1]) = MaxCalls - 1
  /\ job_list[NumCtx] = <<>>

\* C8: the job parsed from '@token command' equals the job parsed from the
\* token's five-field expansion with the same command.
C8_PresetEquivalence ==
  \A p \in SpecialPairs : \A c \in Ctx \ {1} :
    (line[1] = p[1] /\ line[c] = p[2] /\ AllCallsClean)
    => /\ Len(job_list[1]) = MaxCalls
       /\ Len(job_list[c]) = MaxCalls
       /\ \A n \in 1..MaxCalls : SameJob(job_list[1][n], job_list[c][n])

C8_Witness ==
  /\ line[1] = Special(STR_WEEKLY, <<"c", "%", "a", "\\", "%", "%">>)
  /\ AllCallsClean
  /\ Len(job_list[1]) = MaxCalls /\ Len(job_list[NumCtx]) = MaxCalls

\* C9: a line with field text 'a-b' has the same outcome as the line with
\* 'b-a': both rejected, or both accepted with the same bit-sets.
C9_RangeNormality ==
  \A p \in RangePairs : \A c \in Ctx \ {1} :
    (line[1] = p[1] /\ line[c] = p[2] /\ AllCallsClean)
    => /\ Len(job_list[1]) = Len(job_list[c])
       /\ \A n \in 1..Len(job_list[1]) : SameJob(job_list[1][n], job_list[c][n])

\* The stdin payload the text t after the split stands for: a backslash
\* makes the next byte literal, any other '%' is a newline, any other byte
\* is itself.
RECURSIVE Payload(_)
Payload(t) ==
  IF t = <<>> THEN <<>>
  ELSE IF Head(t) = "\\" /\ Len(t) >= 2 THEN <<t[2]>> \o Payload(Tail(Tail(t)))
  ELSE IF Head(t) = "%" THEN <<"\n">> \o Payload(Tail(t))
  ELSE <<Head(t)>> \o Payload(Tail(t))

\* C10: the stdin payload is the text after the split with escapes and '%'
\* replaced, plus exactly one newline; stdin_lines_len is its length.
C10_StdinEscape ==
  \A c \in Ctx : \A t \in Texts(MaxPayloadLen) :
    line[c] = LineWith(1, Star, Cmd \o <<"%">> \o t)
    => \A n \in 1..Len(job_list[c]) :
         /\ job_list[c][n].stdin_lines = Payload(t) \o <<"\n">>
         /\ job_list[c][n].stdin_lines_len = Len(Payload(t)) + 1

C10_Witness ==
  /\ line[1] = LineWith(1, Star, <<"c", "%", "\\", "%", "%">>)
  /\ Len(job_list[1]) = MaxCalls
  /\ job_list[1][1].stdin_lines = <<"%", "\n", "\n">>
  /\ job_list[1][1].stdin_lines_len = 3

\* The 1-based position in command section cs, at or after k, of the first
\* '%' not immediately preceded by a backslash; Len(cs) + 1 when there is none.
RECURSIVE SplitPosition(_, _)
SplitPosition(cs, k) ==
  IF k > Len(cs) THEN k
  ELSE IF cs[k] = "%" /\ (k = 1 \/ cs[k - 1] # "\\") THEN k
  ELSE SplitPosition(cs, k + 1)

\* C11: the command of a job parsed from '* * * * * cs' is cs up to, not
\* including, its first '%' not immediately preceded by a backslash; when
\* there is none the command is all of cs and the job has no stdin payload
\* (stdin_lines NULL, stdin_lines_len 0).
C11_CommandSplit ==
  \A c \in Ctx : \A cs \in SplitSections :
    line[c] = LineWith(1, Star, cs)
    => \A n \in 1..Len(job_list[c]) :
         /\ job_list[c][n].command = SubSeq(cs, 1, SplitPosition(cs, 1) - 1)
         /\ SplitPosition(cs, 1) > Len(cs) =>
              /\ job_list[c][n].stdin_lines = NULL
              /\ job_list[c][n].stdin_lines_len = 0
         /\ SplitPosition(cs, 1) <= Len(cs) => job_list[c][n].stdin_lines # NULL

C11_Witness ==
  /\ line[1] = LineWith(1, Star, <<"c", "\\", "%", "%">>)
  /\ line[NumCtx] = LineWith(1, Star, <<"c", "\\", "%", "%">>)
  /\ Len(job_list[1]) = MaxCalls
  /\ job_list[1][1].command = <<"c", "\\", "%">>
  /\ job_list[1][1].stdin_lines = <<"\n">>

\* The job a complete, unfailing parse of line l appends: <<the job>>, or
\* <<>> when the line yields none.
CompleteJob(l) == crond_crontab_parse_line(ZeroCrond, l, "none").job_list

\* C12: a call in which the size computation or the reallocation for the
\* append fails leaves every store as it was (same jobs, same count), and
\* every entry of a store is the completely parsed job of its line.
C12_AllocationSafety ==
  [][/\ (injected' # injected
         /\ injected'[Len(injected')] \in {"si_mul_size_t", "realloc"})
        => job_list' = job_list
     /\ \A c \in Ctx : \A n \in 1..Len(job_list'[c]) :
          <<job_list'[c][n]>> = CompleteJob(line[c])]_vars

C12_Witness ==
  /\ Len(injected) = MaxCalls
  /\ injected[1] = "none"
  /\ injected[MaxCalls] = "si_mul_size_t"
  /\ line[1] = LineWith(1, Star, <<"c", "%", "a">>)
  /\ line[NumCtx] = LineWith(1, Star, <<"c", "%", "a">>)
  /\ Len(job_list[1]) = MaxCalls - 1
  /\ status_code[1] = EXIT_FAILURE

\* C13: in a job parsed from a line whose field k is the single value v and
\* whose other fields are '*', the bit-set of field k is {v - offset} and
\* every other bit-set is exactly 0..cardinality-1: a '*' changes no other
\* field's bit-set.
C13_StarField ==
  \A c \in Ctx : \A k \in 1..5 : \A v \in EdgeSamples(k) :
    line[c] = LineWith(k, Num(v), Cmd)
    => \A n \in 1..Len(job_list[c]) : \A j \in 1..5 :
         FieldSet(job_list[c][n], j) =
           IF j = k THEN {v - FieldOffset(k)} ELSE 0..(FieldLen(j) - 1)

\* C14: a line in which a field holds a single number whose index, after
\* the field's offset is subtracted, is outside 0..cardinality-1 (0 in the
\* day and month fields included) appends no job: the store stays as it was.
C14_OutOfRangeValue ==
  \A c \in Ctx : line[c] \in OutOfRangeLines => job_list[c] = <<>>

C14_Witness ==
  /\ AllCallsClean
  /\ line[1] = LineWith(3, Num(0), Cmd)
  /\ line[NumCtx] = LineWith(3, Num(0), Cmd)
  /\ job_list[1] = <<>>
  /\ status_code[1] = EXIT_SUCCESS

\* C15: a line whose field k is a range 'a-b' with the larger of a and b, less
\* the field's offset, at or above the cardinality of the field is rejected:
\* it appends no job.
C15_RangeOverrun ==
  \A c \in Ctx : \A k \in 1..5 : \A a, b \in EdgeSamples(k) :
    (/\ line[c] = LineWith(k, Range(a, b), Cmd)
     /\ (IF a > b THEN a ELSE b) - FieldOffset(k) >= FieldLen(k))
    => job_list[c] = <<>>

\* The position of the first newline of text, Len(text) + 1 without one.
FirstNewline(text) ==
  CHOOSE k \in 1..(Len(text) + 1) :
    /\ k = Len(text) + 1 \/ text[k] = "\n"
    /\ \A j \in 1..(k - 1) : text[j] # "\n"

\* The lines of a text, without their newlines; the last line need not end
\* with one.
RECURSIVE LinesOf(_)
LinesOf(text) ==
  IF text = <<>> THEN <<>>
  ELSE <<SubSeq(text, 1, FirstNewline(text) - 1)>> \o
       LinesOf(SubSeq(text, FirstNewline(text) + 1, Len(text)))

\* One job per valid line, in the order of the lines.
RECURSIVE JobsOf(_)
JobsOf(ls) == IF ls = <<>> THEN <<>> ELSE CompleteJob(Head(ls)) \o JobsOf(Tail(ls))

\* A step of daemon c that is crond_crontab_reparse with no call failing.
ReparsedClean(c) == pc[c] = "reparse" /\ pc'[c] = "gettime" /\ faults' = faults

\* C16: after a reparse that finds the file changed and meets no error, the
\* store holds one job per valid line of the file, in file order, each the
\* parse of the whole line without its newline, and nothing else.
C16_ReparseResult ==
  [][\A c \in Ctx :
       (ReparsedClean(c) /\ crontab.exists /\ mtime_crontab[c] # crontab.mtime)
       => job_list'[c] = JobsOf(LinesOf(crontab.text))]_vars

\* C17: with the stored timestamp all-zero, a change detection that finds the
\* schedule file reports 'changed', stores the file's timestamp, and the
\* file is parsed, whatever the file's modification time.
C17_FirstObservation ==
  [][\A c \in Ctx :
       (ReparsedClean(c) /\ crontab.exists /\ mtime_crontab[c] = 0)
       => /\ crond_crontab_has_changed(CtxOf(c), cron_stat(crontab, "none")).has_changed
          /\ mtime_crontab'[c] = crontab.mtime
          /\ job_list'[c] # <<>>]_vars

\* What the change detector reports to daemon c for the schedule file as it
\* is, stat() not failing.
ReportsChanged(c) ==
  crond_crontab_has_changed(CtxOf(c), cron_stat(crontab, "none")).has_changed

\* C18: a change detection that finds the schedule file absent, with a
\* non-zero stored timestamp reports 'changed', clears the timestamp and the
\* store becomes empty; with a zero stored timestamp it reports 'unchanged'
\* and leaves timestamp and store as they are.  A tick with an empty store
\* launches no job, and an empty store gets a job only by a reparse that
\* finds a file.
C18_ScheduleRemoval ==
  [][\A c \in Ctx :
       /\ (ReparsedClean(c) /\ ~crontab.exists /\ mtime_crontab[c] # 0)
          => ReportsChanged(c) /\ mtime_crontab'[c] = 0 /\ job_list'[c] = <<>>
       /\ (ReparsedClean(c) /\ ~crontab.exists /\ mtime_crontab[c] = 0)
          => /\ ~ReportsChanged(c)
             /\ mtime_crontab'[c] = 0 /\ job_list'[c] = job_list[c]
       /\ (pc[c] = "job_list_run" /\ pc'[c] # pc[c] /\ job_list[c] = <<>>)
          => should_run'[c] = << <<>> >>
       /\ (job_list[c] = <<>> /\ job_list'[c] # <<>>)
          => pc[c] = "reparse" /\ crontab.exists]_vars

\* The daemon launched a job in its last tick; now the file is gone and the
\* reparse of this tick has cleared timestamp and store.
C18_Witness ==
  \E c \in Ctx :
    /\ pc[c] = "gettime" /\ ~errx[c] /\ faults = 0
    /\ ~crontab.exists
    /\ should_run[c] # <<>> /\ \E n \in DOMAIN should_run[c][1] : should_run[c][1][n]
    /\ mtime_crontab[c] = 0 /\ job_list[c] = <<>>

\* Daemon c takes the reparse step of a tick, and stat() of the schedule
\* file fails in it with an error other than ENOENT.
StatFails(c) ==
  pc[c] = "reparse" /\ pc'[c] = "gettime" /\ faults' # faults /\ hist'[c].failed = "stat"

\* C19: a change detection in which stat() fails with an error other than
\* ENOENT records the failure exit code and leaves the stored timestamp and
\* the store as they are; after it the daemon begins no further tick, and it
\* eventually returns EXIT_FAILURE unless another call fails later.
C19_StatFailure ==
  /\ [][\A c \in Ctx :
          StatFails(c) => /\ status_code'[c] = EXIT_FAILURE /\ errx'[c]
                          /\ mtime_crontab'[c] = mtime_crontab[c]
                          /\ job_list'[c] = job_list[c]]_vars
  /\ [](\A c \in Ctx :
          hist[c].failed = "stat"
          => /\ pc[c] \notin {"while", "reparse"} \/ ShouldExit(c)
             /\ pc[c] = "done" => proc[c].exit_status = <<EXIT_FAILURE>>)
  /\ \A c \in Ctx :
       hist[c].failed = "stat"
       ~> (\/ pc[c] = "done" /\ proc[c].exit_status = <<EXIT_FAILURE>>
           \/ hist[c].failed # "stat")

\* The daemon had a schedule in its store when stat() failed, no signal was
\* sent, and it has returned EXIT_FAILURE.
C19_Witness ==
  \E c \in Ctx :
    /\ pc[c] = "done" /\ hist[c].failed = "stat" /\ hist[c].entered
    /\ g_signal_sigterm[c] = 0 /\ g_signal_sigint[c] = 0
    /\ mtime_crontab[c] # 0
    /\ proc[c].exit_status = <<EXIT_FAILURE>>

\* C20: once a read error or a close failure has occurred in a reparse of
\* the schedule file, the store is empty and the daemon keeps running: unless
\* a signal asks it to stop, it does not leave its main loop.
C20_ReparseIOError ==
  \A c \in Ctx :
    hist[c].failed \in {"ferror", "fclose"}
    => /\ job_list[c] = <<>>
       /\ (g_signal_sigterm[c] = 0 /\ g_signal_sigint[c] = 0)
          => pc[c] \notin {"cleanup", "done"}

\* C21: a status code set to failure is never reset; with it set the daemon
\* is at no time about to sleep or asleep or at the start of an iteration,
\* and the next test of the loop condition leaves the main loop.
C21_StickyFailure ==
  /\ [][\A c \in Ctx :
          status_code[c] # EXIT_SUCCESS
          => /\ status_code'[c] = status_code[c]
             /\ (pc[c] = "while" /\ pc'[c] # pc[c]) => pc'[c] = "cleanup"]_vars
  /\ [](\A c \in Ctx :
          status_code[c] # EXIT_SUCCESS
          => pc[c] \notin {"reparse", "sleep", "sleeping"})

\* clock_gettime() failed in an iteration of the main loop; the daemon has
\* left the loop and returned, without a signal.
C21_Witness ==
  \E c \in Ctx :
    /\ pc[c] = "done" /\ hist[c].entered /\ hist[c].failed = "clock_gettime"
    /\ g_signal_sigterm[c] = 0 /\ g_signal_sigint[c] = 0
    /\ status_code[c] = EXIT_FAILURE

\* C22: a step in which the daemon launches jobs, whether or not fork()
\* fails, and a step in which a monitor ends, with whatever status, leave
\* the daemon's status code as it is; as long as no call other than fork()
\* has failed in the daemon, its status code is 0, it leaves the main loop
\* only after a signal, and it returns 0.
C22_JobFailureIsolation ==
  /\ [][\A c \in Ctx :
          (jobmon' # jobmon \/ (pc[c] = "job_list_run" /\ pc'[c] = "gettime_again"))
          => status_code'[c] = status_code[c] /\ errx'[c] = errx[c]]_vars
  /\ [](\A c \in Ctx :
          (faults = 0 /\ hist[c].failed \in {"none", "fork"})
          => /\ status_code[c] = EXIT_SUCCESS
             /\ (g_signal_sigterm[c] = 0 /\ g_signal_sigint[c] = 0)
                => pc[c] \notin {"cleanup", "done", "crashed"}
             /\ pc[c] = "done" => proc[c].exit_status = <<EXIT_SUCCESS>>)

\* In one tick fork() failed for one job and the monitor of another job
\* ended with a failure; after SIGTERM the daemon has returned 0.
C22_Witness ==
  \E c \in Ctx :
    /\ pc[c] = "done" /\ hist[c].failed = "fork" /\ g_signal_sigterm[c] = 1
    /\ proc[c].exit_status = <<EXIT_SUCCESS>>
    /\ \E i \in DOMAIN jobmon :
         jobmon[i].pc = "exited" /\ jobmon[i].status = <<EXIT_FAILURE>>

\* C23: the daemon never waits for a child.  The step that launches jobs
\* leaves every new monitor at its first instruction and the older children
\* as they are; the reap step removes the terminated children only; the
\* return of crond_main leaves the children as they are; and each of these
\* steps can be taken whatever the children are doing.
C23_NonBlocking ==
  /\ [][\A c \in Ctx :
          /\ (pc[c] = "job_list_run" /\ pc'[c] = "gettime_again")
             => /\ Len(jobmon') >= Len(jobmon)
                /\ SubSeq(jobmon', 1, Len(jobmon)) = jobmon
                /\ \A i \in (Len(jobmon) + 1)..Len(jobmon') : jobmon'[i].pc = "pipe"
          /\ (pc[c] = "reap" /\ pc'[c] = "while")
             => jobmon' = SelectSeq(jobmon, Running)
          /\ (pc[c] = "cleanup" /\ pc'[c] = "done")
             => jobmon' = jobmon]_vars
  /\ [](\A c \in Ctx :
          pc[c] \in {"job_list_run", "reap", "cleanup"} => ENABLED RunJobs(c))

\* The daemon has returned while a monitor it forked is still running.
C23_Witness ==
  \E c \in Ctx :
    /\ pc[c] = "done" /\ hist[c].entered
    /\ \E i \in DOMAIN jobmon : Running(jobmon[i])

\* idx maps the monitors of new, in their order, to jobs of the store that
\* were selected, in increasing position.
InStoreOrder(new, store, r, idx) ==
  /\ \A k \in DOMAIN new :
       /\ r[idx[k]]
       /\ new[k].command = store[idx[k]].command
       /\ new[k].stdin_lines = store[idx[k]].stdin_lines
  /\ \A k \in DOMAIN new : \A l \in DOMAIN new : k < l => idx[k] < idx[l]

\* The monitors forked in a step.
NewJobmons == SubSeq(jobmon', Len(jobmon) + 1, Len(jobmon'))

\* C24: the monitors forked in one tick are forked in the order their jobs
\* have in the store, and, when no call has failed, the order of the store
\* is the order of the lines in the schedule file.
C24_LaunchOrder ==
  /\ [][\A c \in Ctx :
          (pc[c] = "job_list_run" /\ pc'[c] = "gettime_again")
          => \E idx \in [1..Len(NewJobmons) -> DOMAIN job_list[c]] :
               InStoreOrder(NewJobmons, job_list[c], should_run'[c][1], idx)]_vars
  /\ [](\A c \in Ctx :
          (faults = 0 /\ job_list[c] # <<>>)
          => job_list[c] = JobsOf(LinesOf(crontab.text)))

\* The first and the third job of the file were selected in this tick, and
\* their monitors forked, in this order.
C24_Witness ==
  \E c \in Ctx :
    /\ pc[c] = "gettime_again" /\ Len(job_list[c]) = 3
    /\ should_run[c] = << <<TRUE, FALSE, TRUE>> >>
    /\ Len(jobmon) = 2
    /\ jobmon[1].pc = "pipe" /\ jobmon[1].command = job_list[c][1].command
    /\ jobmon[2].pc = "pipe" /\ jobmon[2].command = job_list[c][3].command
    /\ jobmon[1].command # jobmon[2].command

\* The bytes the command of monitor m has written, and the bytes the
\* monitor has written to mailx.
Emitted(m) == SubSeq(m.cmd.out, 1, m.cmd.done)

Fed(m) == m.mailx.got \o m.pipe_mailx

\* Monitor m has ended as C25 requires: mailx was started and was given all
\* the command wrote, or the command wrote nothing and mailx was not started.
MailedOutput(m) ==
  IF Emitted(m) # <<>>
  THEN m.mailx.pc # "none" /\ Fed(m) = Emitted(m)
  ELSE m.mailx.pc = "none"

\* C25: when a monitor has ended and no call has failed, mailx was started
\* and given the whole output of the command if the command wrote a byte,
\* and was not started if it wrote nothing, whether or not the command read
\* its stdin.
C25_MailOnOutput ==
  \A i \in DOMAIN jobmon :
    (Terminated(jobmon[i]) /\ faults = 0) => MailedOutput(jobmon[i])

\* Monitor m is at or past the read loop, and at or past the wait for the
\* command.
Draining(m) ==
  m.pc \in {"read", "close_read0", "waitpid_cmd", "mailx", "waitpid_mailx"}
  \/ MailxWriterOpen(m)

WaitingOrLater(m) ==
  m.pc \in {"waitpid_cmd", "mailx", "waitpid_mailx"} \/ MailxWriterOpen(m)

\* The order of the monitor's steps up to the start of mailx: the stdin
\* section is written and its pipe closed before output is read, the output
\* is read to its end before the command is waited for, and mailx is started
\* only after the command was waited for.
OrderedUpToMailx(m) ==
  /\ Draining(m) => (m.fd_write = NULL \/ m.fd_write.to = "mailx") /\ ~StdinWriterOpen(m)
  /\ WaitingOrLater(m)
     => m.pipe_read = <<>> /\ ~Alive(m.cmd) /\ MailBodySz(m) = m.cmd.done
  /\ m.mailx.pc # "none" => m.cmd.pc = "reaped"

\* C26 as stated: in every monitor run the steps are ordered as in
\* OrderedUpToMailx, and a monitor that has ended has waited for mailx if it
\* started it.
C26_MonitorOrdering ==
  \A i \in DOMAIN jobmon :
    /\ OrderedUpToMailx(jobmon[i])
    /\ (Terminated(jobmon[i]) /\ jobmon[i].mailx.pc # "none")
       => jobmon[i].mailx.pc = "reaped"

\* C26, amended: in every monitor run the steps are ordered as in
\* OrderedUpToMailx; a monitor that has called exit(EXIT_SUCCESS) has waited
\* for mailx if it started it; and a monitor that ends after it started
\* mailx, without having waited for it, was terminated by SIGPIPE or has
\* called exit(EXIT_FAILURE).
C26_MonitorOrderingAmended ==
  \A i \in DOMAIN jobmon :
    /\ OrderedUpToMailx(jobmon[i])
    /\ (jobmon[i].pc = "exited" /\ jobmon[i].status = <<EXIT_SUCCESS>>
        /\ jobmon[i].mailx.pc # "none")
       => jobmon[i].mailx.pc = "reaped"
    /\ (Terminated(jobmon[i]) /\ jobmon[i].mailx.pc \notin {"none", "reaped"})
       => jobmon[i].pc = "killed" \/ jobmon[i].status = <<EXIT_FAILURE>>

\* A monitor wrote a stdin section, read two bytes of output, waited for the
\* command, gave mailx the two bytes, waited for it and called
\* exit(EXIT_SUCCESS).
C26_Witness ==
  \E i \in DOMAIN jobmon :
    /\ jobmon[i].pc = "exited" /\ jobmon[i].status = <<EXIT_SUCCESS>>
    /\ jobmon[i].stdin_lines # <<>> /\ jobmon[i].cmd.reads
    /\ jobmon[i].cmd.pc = "reaped" /\ jobmon[i].mailx.pc = "reaped"
    /\ Len(jobmon[i].mailx.got) = 2 /\ jobmon[i].mailx.got = jobmon[i].cmd.out


\* What a reparse of the schedule file as it is leaves in an empty store, no
\* call failing.
Reread(c) ==
  crond_crontab_reparse([CtxOf(c) EXCEPT !.job_list = NULL, !.mtime_crontab = 0],
                        crontab, "none").job_list

\* SIGHUP reaches daemon c: no shutdown flag and no exit code is set, the
\* shutdown predicate is as before, and a sleep() in progress has ended.
SighupDelivery(c) ==
  Deliver(c, "SIGHUP")
  => /\ g_signal_sigterm'[c] = g_signal_sigterm[c]
     /\ g_signal_sigint'[c] = g_signal_sigint[c]
     /\ status_code'[c] = status_code[c]
     /\ ShouldExit(c)' = ShouldExit(c)
     /\ pc'[c] = IF pc[c] = "sleeping" THEN "reap" ELSE pc[c]

\* The iteration after the sleep that SIGHUP ended begins with the change
\* detector, and a reparse in which no call fails leaves the store as read
\* from the file (empty, with the timestamp cleared, when the file is gone).
SighupReparse(c) ==
  /\ (hist[c].sighup = "stale" /\ pc'[c] # pc[c])
     => \/ pc[c] = "reap" /\ pc'[c] = "while"
        \/ pc[c] = "while" /\ pc'[c] = (IF ShouldExit(c) THEN "cleanup" ELSE "reparse")
        \/ pc[c] = "reparse" /\ pc'[c] = "gettime"
        \/ status_code[c] = EXIT_FAILURE \/ pc[c] \in {"cleanup", "done"}
  /\ (hist[c].sighup = "stale" /\ ReparsedClean(c))
     => /\ hist'[c].sighup = "no"
        /\ IF crontab.exists
           THEN mtime_crontab'[c] = crontab.mtime /\ job_list'[c] = Reread(c)
           ELSE mtime_crontab'[c] = 0 /\ job_list'[c] = <<>>

\* Daemon c is about to match the jobs of a store that is older than the
\* schedule file which SIGHUP made it look at.
MatchesStale(c) ==
  pc[c] = "job_list_run" /\ hist[c].sighup = "stale" /\ job_list[c] # <<>>

CompleteFiles == CrontabTexts \cup { UtilInput[u] : u \in 1..NumUtil }

\* A step of daemon c that is a reparse which finds the schedule file
\* changed and reads it.
ReadsFile(c) ==
  /\ pc[c] = "reparse" /\ pc'[c] = "gettime"
  /\ crontab.exists /\ ReportsChanged(c)
  /\ hist'[c].failed = hist[c].failed

\* C28: under any interleaving of the daemon's reparse with the replacements
\* of the schedule file by runs of the crontab utility, two runs at the same
\* time included, what the daemon reads at the schedule path is the complete
\* old file or the complete new file of some replacement, never a partially
\* written one.
C28_NoTornSchedule ==
  [][\A c \in Ctx : ReadsFile(c) => crontab.text \in CompleteFiles]_vars

\* A step of the startup of daemon c has failed: getopt() met an unknown
\* flag, cron_get_path_crontab or sigaction() failed, or the lock file was
\* not created (malloc() or open() failed, or the file exists).
StartupFailed(c) ==
  \/ hist[c].failed \in {"getopt", "path_crontab", "sigaction", "malloc", "open"}
  \/ hist[c].eexist

\* C29: a daemon of which a startup step has failed never enters its main
\* loop: it runs no change detection, launches no job, and what it returns is
\* not zero.
C29_StartupFailure ==
  \A c \in Ctx :
    StartupFailed(c)
    => /\ ~hist[c].entered /\ ~InMainLoop(c)
       /\ mtime_crontab[c] = 0 /\ job_list[c] = <<>> /\ tm[c] = NULL
       /\ should_run[c] = <<>>
       /\ status_code[c] # 0
       /\ pc[c] = "done" => proc[c].exit_status = <<EXIT_FAILURE>>

\* One daemon was started with an unknown flag, another found the lock file
\* of the first; both have returned EXIT_FAILURE, and the schedule file, which
\* exists, was never looked at.
C29_Witness ==
  \E c, d \in Ctx :
    /\ hist[c].failed = "getopt" /\ hist[d].eexist
    /\ pc[c] = "done" /\ proc[c].exit_status = <<EXIT_FAILURE>>
    /\ pc[d] = "done" /\ proc[d].exit_status = <<EXIT_FAILURE>>
    /\ crontab.exists /\ mtime_crontab[c] = 0 /\ mtime_crontab[d] = 0

\* The broken-down time t with field k (1..5) at the value v of the schedule
\* file: minute, hour, day of the month, month (1 = January, tm_mon 0) or
\* day of the week.
TimeAt(k, v, t) ==
  IF k = 1 THEN [t EXCEPT !.tm_min = v]
  ELSE IF k = 2 THEN [t EXCEPT !.tm_hour = v]
  ELSE IF k = 3 THEN [t EXCEPT !.tm_mday = v]
  ELSE IF k = 4 THEN [t EXCEPT !.tm_mon = v - 1]
  ELSE [t EXCEPT !.tm_wday = v]

\* Field k of line l is the range a-b, a valid and b above the maximum of the
\* field; the other fields are '*'.
RangeAboveMax(l, k, a, b) ==
  /\ l = LineWith(k, Range(a, b), Cmd)
  /\ a >= FieldOffset(k) /\ a - FieldOffset(k) < FieldLen(k)
  /\ b - FieldOffset(k) >= FieldLen(k)

\* The jobs of context c are selected at every time of fields, with field k
\* at any value from a to the last valid one.
MatchesFrom(c, k, a, fields) ==
  \A n \in 1..Len(job_list[c]) :
    \A v \in a..(FieldLen(k) - 1 + FieldOffset(k)) : \A t \in TmSamples :
      t.tm_mon \in fields => crond_job_should_run(TimeAt(k, v, t), job_list[c][n])

\* C30: a line with a range whose lower endpoint is valid and whose upper
\* endpoint is above the maximum of the field is accepted, and its job is
\* selected at every value of the field from the lower endpoint to the last
\* valid one (minute field: every minute from the lower endpoint to 59).
C30_RangeClamped ==
  \A c \in Ctx : \A k \in 1..5 : \A a, b \in EdgeSamples(k) :
    (RangeAboveMax(line[c], k, a, b) /\ injected # <<>>)
    => job_list[c] # <<>> /\ MatchesFrom(c, k, a, 0..(LenMonth - 1))

(***************************************************************************)
(* The length of the sleep.                                                *)
(***************************************************************************)
\* Daemon c is about to call sleep(), or is in it.
AboutToSleep(c) == pc[c] \in {"sleep", "sleeping"}

\* The requested seconds of daemon c are those of the time it holds: the time
\* read after the jobs were launched, since no read has failed.
SleepFromTime(c) ==
  /\ status_code[c] = 0 /\ tm[c] # NULL
  /\ LET d == 60 - tm[c][1].tm_sec
     IN  proc[c].sleep_sec = IF d = 0 THEN 1 ELSE d

\* A step of the pre-sleep check with the shutdown predicate true requests no
\* sleep.
NoSleepOnExit ==
  \A c \in Ctx :
    (pc[c] = "should_sleep" /\ ShouldExit(c)) => pc'[c] \notin {"sleep", "sleeping"}

\* C31: whenever the daemon sleeps, the requested duration is 60 - tm_sec of
\* the time captured after job launching, raised to 1 when that is 0; for
\* every tm_sec in 0..60 the duration lies in 1..60; and no sleep is requested
\* when the shutdown predicate is true at the check.
C31_SleepLength ==
  /\ [](\A c \in Ctx : AboutToSleep(c) => SleepFromTime(c) /\ proc[c].sleep_sec \in 1..60)
  /\ [](\A tm_sec \in 0..60 : SleepSec(tm_sec) \in 1..60)
  /\ [][NoSleepOnExit]_vars

\* The daemon sleeps one second after it read the leap second (tm_sec = 60).
C31_Witness ==
  \E c \in Ctx :
    /\ pc[c] = "sleeping" /\ tm[c] # NULL
    /\ tm[c][1].tm_sec = 60 /\ proc[c].sleep_sec = 1

(***************************************************************************)
(* The checked size arithmetic.                                            *)
(***************************************************************************)
\* The mathematical product a * b is WideHigh(a, b) * SqrtSize + WideLow(a, b),
\* the second below SqrtSize (which divides 2^SizeBits).
WideHigh(a, b) == (a \div SqrtSize) * b + ((a % SqrtSize) * b) \div SqrtSize

WideLow(a, b) == ((a % SqrtSize) * b) % SqrtSize

\* (a * b) mod 2^SizeBits, and whether a * b >= 2^SizeBits.
ProductMod(a, b) ==
  (WideHigh(a, b) % ((2 ^ SizeBits) \div SqrtSize)) * SqrtSize + WideLow(a, b)

ProductWraps(a, b) == WideHigh(a, b) >= (2 ^ SizeBits) \div SqrtSize

\* C32: for all unsigned W-bit a and b, si_add_size_t stores (a + b) mod 2^W
\* and returns 1 exactly when a + b >= 2^W; si_mul_size_t stores (a * b) mod
\* 2^W and returns 1 exactly when a * b >= 2^W, and 0 whenever b = 0.
C32_CheckedSize ==
  /\ si.op = "si_add_size_t"
     => /\ si.result = (si.a + si.b) % (2 ^ SizeBits)
        /\ si.wraps = (IF si.a + si.b >= 2 ^ SizeBits THEN 1 ELSE 0)
  /\ si.op = "si_mul_size_t"
     => /\ si.result = ProductMod(si.a, si.b)
        /\ si.wraps = (IF ProductWraps(si.a, si.b) THEN 1 ELSE 0)
        /\ si.b = 0 => si.wraps = 0

\* si_mul_size_t(SIZE_MAX, 2, &result) has wrapped (test_unit_si_all).
C32_Witness ==
  /\ si.op = "si_mul_size_t" /\ si.a = SIZE_MAX /\ si.b = 2
  /\ si.wraps = 1 /\ si.result = SIZE_MAX - 1

(***************************************************************************)
(* Reaping.                                                                *)
(***************************************************************************)
\* Monitors that have terminated and were not waited for.
Zombies == { i \in DOMAIN jobmon : ~Running(jobmon[i]) }

\* Daemon c is in its main loop, or about to test its condition.
Ticking(c) == pc[c] \in LoopBody \cup {"while"}

\* Every iteration of the main loop ends with a reap step, which collects
\* every terminated monitor and no other.
ReapEndsTick ==
  \A c \in Ctx :
    (pc[c] \in LoopBody /\ pc'[c] = "while")
    => /\ pc[c] = "reap"
       /\ jobmon' = SelectSeq(jobmon, Running)
       /\ \A i \in DOMAIN jobmon' : Running(jobmon'[i])

\* C33: in every main-loop iteration the daemon performs one reap step, which
\* collects every monitor that has already terminated; while the daemon keeps
\* ticking, every monitor that terminates is eventually reaped, and none
\* stays terminated and unreaped from one tick to the next.
C33_Reaping ==
  /\ [][ReapEndsTick]_vars
  /\ (Zombies # {}) ~> (Zombies = {} \/ ~Ticking(1))

\* A tick begins with two monitors running after a reap step.
C33_Witness ==
  /\ pc[1] = "while" /\ Len(jobmon) = 2 /\ Zombies = {}
  /\ hist[1].entered /\ tm[1] # NULL

(***************************************************************************)
(* Launches and the wall clock.                                            *)
(***************************************************************************)
\* C34: for every job and every wall-clock minute, the daemon launches the
\* job at most once during that minute, also when SIGHUP (or any handled
\* signal) interrupts the sleep before the minute boundary.
C34_OncePerMinute ==
  [][\A c \in Ctx : \A k \in Launched(c) : <<k, wall.now \div 60>> \notin wall.launched]_vars

(***************************************************************************)
(* Shutdown signals around the sleep.                                      *)
(***************************************************************************)
\* A shutdown flag of daemon c is set.
ShutdownPending(c) == g_signal_sigterm[c] = 1 \/ g_signal_sigint[c] = 1

\* Daemon c calls sleep() in this step.
BeginsSleep(c) == pc[c] = "sleep" /\ pc'[c] = "sleeping"

\* The sleep() of daemon c returns in this step because its time is over.
SleptFullPeriod(c) ==
  pc[c] = "sleeping" /\ pc'[c] = "reap" /\ wall.now < wall.wake /\ wall'.now = wall.wake

\* C35: under every interleaving of signal delivery with the main loop, the
\* daemon never begins a sleep while a shutdown flag (SIGTERM or SIGINT) is
\* set, and a shutdown signal delivered between the pre-sleep check and the
\* sleep call does not leave the daemon sleeping a full period.
C35_NoSleepPending ==
  /\ [][\A c \in Ctx : BeginsSleep(c) => ~ShutdownPending(c)]_vars
  /\ [][\A c \in Ctx : SleptFullPeriod(c) => ~ShutdownPending(c)]_vars

(***************************************************************************)
(* Launches after a shutdown signal or a failure.                          *)
(***************************************************************************)
\* The step forks a monitor.
ForksJobmon == Len(jobmon') > Len(jobmon)

\* C36: once a shutdown flag has been set by SIGTERM or SIGINT, or a failure
\* status has been recorded, the daemon forks no further monitor, the
\* remainder of the tick in which the flag or the failure occurred included.
C36_NoLaunchAfterStop ==
  [][ForksJobmon => \A c \in Ctx : pc[c] = "job_list_run" => ~ShouldExit(c)]_vars

(***************************************************************************)
(* The time the matcher is given.                                          *)
(***************************************************************************)
\* Daemon c evaluates the matcher on a job in this step.
Matches(c) == pc[c] = "job_list_run" /\ pc'[c] # "job_list_run" /\ job_list[c] # <<>>

\* crond_gettime has failed in the tick daemon c is in: a failure of it ends
\* the loop, so that the failure before crond_job_list_run is of this tick.
GettimeFailed(c) == hist[c].failed \in {"clock_gettime", "localtime"}

\* C37: the matcher is evaluated only against a broken-down time obtained in
\* the current tick; when obtaining the time fails in a tick (clock read or
\* local-time conversion), no job is matched against an absent or stale time
\* in that tick.
C37_ValidTime ==
  [][\A c \in Ctx : Matches(c) => tm[c] # NULL /\ ~GettimeFailed(c)]_vars

\* The clock read fails in a later tick, and the matcher is evaluated on the
\* time of the tick before: never, if the claim holds.
C37_NoStaleTime ==
  [][\A c \in Ctx : Matches(c) /\ tm[c] # NULL => tm[c][1] = ClockTime(wall.now)]_vars

(***************************************************************************)
(* The calendar month.                                                     *)
(***************************************************************************)
\* The indices at which crond_job_should_run reads job->month and job->day.
MonthIndex(t) == t.tm_mon - 1

DayIndex(t) == t.tm_mday - 1

\* C38: for every time localtime() can return (tm_mon in 0..11 with 0 =
\* January, tm_mday in 1..31) the matcher reads only indices inside each
\* bit-set (month index in 0..11, day index in 0..30), and a job whose month
\* field is the single value k (1..12) is selected exactly in calendar month
\* k, that is when tm_mon = k - 1.
C38_CalendarMonth ==
  \A c \in Ctx :
    should_run[c] # <<>> /\ job_list[c] # <<>>
    => /\ MonthIndex(tm[c][1]) \in 0..(LenMonth - 1)
       /\ DayIndex(tm[c][1]) \in 0..(LenDay - 1)
       /\ \A m \in SingleSamples(1), h \in SingleSamples(2), d \in SingleSamples(3),
             k \in SingleSamples(4), w \in SingleSamples(5) :
            line[c] = Line5(Num(m), Num(h), Num(d), Num(k), Num(w), Cmd)
            => \A n \in 1..Len(job_list[c]) :
                 should_run[c][1][n] <=>
                   /\ tm[c][1].tm_min = m
                   /\ tm[c][1].tm_hour = h
                   /\ tm[c][1].tm_mday = d
                   /\ tm[c][1].tm_mon = k - 1
                   /\ tm[c][1].tm_wday = w

(***************************************************************************)
(* Progress of the monitor.                                                *)
(***************************************************************************)
\* The monitor is blocked in the write() of the stdin section, the pipe
\* being full, and the command in the write() of its output, that pipe being
\* full too: the command reads its stdin only afterwards, and the monitor
\* reads the output only afterwards.
Deadlocked(m) ==
  /\ m.pc = "fd_write" /\ m.fd_write.to = "cmd" /\ m.fd_write.stage = "write"
  /\ Len(m.pipe_write) = PipeCapacity
  /\ m.cmd.pc = "running" /\ m.cmd.out_first
  /\ m.cmd.done < Len(m.cmd.out)
  /\ Len(m.pipe_read) = PipeCapacity

\* The command of monitor m runs a program that reads its stdin to the end
\* and exits.
ReadsToEof(m) == m.cmd.pc = "running" /\ m.cmd.reads

\* C39: for every job whose command eventually reads its stdin to EOF and
\* exits, the monitor never deadlocks with the command and eventually
\* terminates, for every length of the stdin section and every amount of
\* output the command writes before, during or after reading its stdin.
C39_MonitorProgress ==
  /\ [](\A i \in DOMAIN jobmon : ~Deadlocked(jobmon[i]))
  /\ \A i \in 1..MaxJobmon :
       (i \in DOMAIN jobmon /\ ReadsToEof(jobmon[i]))
       ~> (i \in DOMAIN jobmon /\ Terminated(jobmon[i]))

(***************************************************************************)
(* The children of the daemon.                                             *)
(***************************************************************************)
\* Monitor m is at a call of crond_job_run, crond_fd_write, crond_waitpid or
\* crond_mailx, or has terminated.
InJobRun(m) ==
  m.pc \in {"pipe", "fork", "close", "fd_write", "read", "close_read0", "waitpid_cmd",
            "mailx", "waitpid_mailx", "exited", "killed"}

\* A command or mailx process is between its fork() and its exec, runs the
\* program it has exec'ed, or has terminated.
ExecOrExit(child) == child.pc \in {"none", "setup", "running", "zombie", "reaped"}

\* A step of a monitor or of one of its children.
JobmonSteps == \E i \in 1..MaxJobmon : RunJobmon(i)

\* C40: every control path of a monitor process and of a command or mailx
\* child ends in exec or process exit inside crond_job_run and crond_mailx;
\* no child returns into the daemon's main loop, launches further jobs from
\* the store, or closes and unlinks the lock file.
C40_ChildrenStayChildren ==
  /\ [](\A i \in DOMAIN jobmon :
          /\ InJobRun(jobmon[i])
          /\ ExecOrExit(jobmon[i].cmd) /\ ExecOrExit(jobmon[i].mailx))
  /\ [][JobmonSteps
        => /\ Len(jobmon') = Len(jobmon)
           /\ UNCHANGED <<pc, proc, should_run, job_list, lock_file, fd_lock_file, hist>>]_vars

\* A monitor has gone through crond_job_run to its end: the command and
\* mailx have exec'ed, exited and were waited for, and the monitor has called
\* exit(EXIT_SUCCESS).
C40_Witness ==
  \E i \in DOMAIN jobmon :
    /\ jobmon[i].pc = "exited" /\ jobmon[i].status = <<EXIT_SUCCESS>>
    /\ jobmon[i].cmd.pc = "reaped" /\ jobmon[i].cmd.status = <<EXIT_SUCCESS>>
    /\ jobmon[i].mailx.pc = "reaped" /\ jobmon[i].mailx.status = <<EXIT_SUCCESS>>

=============================================================================
